---------------------------- MODULE Spec2Model ----------------------------
(***************************************************************************)
(* Cost-benefit memory management (mm/estimator.c): the per-process        *)
(* profile store (red-black trees of benefit-annotated address ranges),    *)
(* the mmap filter engine, the registry of profiled processes, and the     *)
(* estimator proper: the mode switch, the tunables, mm_estimate_changes    *)
(* and mm_decide.                                                          *)
(*                                                                         *)
(* Ranges live in one heap of nodes, addressed by small integers; 0 is the *)
(* NULL pointer.  A tree is a root pointer into that heap.  The functions  *)
(* of estimator.c are transcribed as operators that take the heap and      *)
(* return the new heap; the kernel's rb-tree primitives (lib/rbtree.c,     *)
(* include/linux/rbtree.h), which estimator.c calls, are transcribed with  *)
(* their colours and parent pointers, since estimator.c links nodes by     *)
(* hand (rb_link_node) and edits keys of nodes that are in a tree.         *)
(***************************************************************************)
EXTENDS Integers, Sequences, FiniteSets, TLC

\* ------------------------------------------------------------------ bounds

\* Number of range nodes the heap can hold.
MaxNodes == 5

\* Largest address of the stand-alone store's ranges.
MaxAddr == 4

\* Largest benefit value written into a range or a filter.
MaxBenefit == 2

\* Number of operations on the stand-alone store in one run.
MaxOps == 4

\* PAGE_SIZE, in the model's address unit.
PageSize == 2

\* Number of values of the model's u64: arithmetic on addresses is modulo this.
AddrSpace == 8

\* Number of struct mmap_filter_proc objects vmalloc can hand out.
MaxProcs == 3

\* Number of filters one profile may hold.
MaxFilters == 2

\* Largest number of allocations a call is let to make before vmalloc fails.
MaxFuel == 4

\* Number of calls into the registry of profiles in one run.
MaxCalls == 4

\* A number of allocations no call reaches: vmalloc fails only for lack of
\* objects.
Plenty == 32

\* Number of values of the model's u64 for costs and benefits: arithmetic on
\* them is modulo this.
CostSpace == 64

\* Largest prezero_n an action carries.
MaxPrezero == 5

\* Number of calls of mm_estimate_changes and of mm_decide in one run.
MaxEstimates == 2

\* The cycle counts of estimator.c, scaled down to fit CostSpace with their
\* order kept: prep < reclaim < allocation, and their sum does not wrap.
ALLOC_COST == 32

PREP_COST == 3

RECLAIM_COST == 8

DAEMON_COST == 32

HUGE_PAGE_ZEROING_COST == 4

ZEROING_PER_PAGE_COST == 4

CRITICAL_SECTION_COST == 2

\* The factor 1000 of kHz per MHz in the free capacity of the zone lock.
KHZ_PER_MHZ == 2

\* The factor 10 (microseconds of a base page fault) of the eager paging cost.
EAGER_FAULT_US == 1

\* The initial values of mm_econ_contention_ms and mm_econ_freq_mhz.
CONTENTION_MS_INIT == 2

FREQ_MHZ_INIT == 3

\* FSHIFT and FIXED_1 of the load averages, and the rounding offset
\* FIXED_1/200 that mm_estimate_daemon_cost passes to get_avenrun.
FSHIFT == 11

FIXED_1 == 2 ^ FSHIFT

\* What extra holds when it points to an array of ranges.
RANGES_PTR == 2

EINVAL == 22

ERANGE == 34

INT_MAX == 2147483647

NULL == 0

\* enum mmap_comparator
CompEquals == "="

CompGreaterThan == ">"

CompLessThan == "<"

Comparators == {CompEquals, CompGreaterThan, CompLessThan}

\* enum mm_policy
PolicyHugePage == "huge"

PolicyEagerPage == "eager"

\* enum mm_memory_section
SectionCode == "code"

SectionData == "data"

SectionHeap == "heap"

SectionMmap == "mmap"

\* enum mmap_quantity, the values the model's filters use
QuantSectionOff == "section_off"

QuantAddr == "addr"

QuantLen == "len"

QuantProt == "prot"

QuantFlags == "flags"

QuantFD == "fd"

QuantOff == "off"

VARIABLES
    heap,           \* the vmalloc'ed struct profile_range objects
    root,           \* rb_root of the stand-alone interval store
    last,           \* the last operation and what it was called with
    procs,          \* the vmalloc'ed struct mmap_filter_proc objects
    filter_procs,   \* the list filter_procs: the profiles linked, in order
    fault,          \* a call has dereferenced a pointer that was never set
    econ,           \* the estimator's globals: mode, tunables, statistics
    est,            \* the last call into the estimator and what it returned
    filter_procs_sem,   \* the rw_semaphore: its writer and its readers
    task,           \* the tasks inside a call: where they are, what they hold
    registry,       \* the profiles as the tasks see them: linked, freed
    log             \* the changes made and the lock they were made under

vars == <<heap, root, last, procs, filter_procs, fault, econ, est,
          filter_procs_sem, task, registry, log>>

\* The variables of the calls as single steps, and those of the calls as
\* tasks take them step by step.
datavars == <<heap, root, last, procs, filter_procs, fault, econ, est>>

lockvars == <<filter_procs_sem, task, registry, log>>

econvars == <<econ, est>>

procvars == <<procs, filter_procs, fault, econ, est>>

NodeIds == 1..MaxNodes

\* A struct profile_range that is not allocated.
Blank ==
    [l |-> NULL, r |-> NULL, p |-> NULL, red |-> FALSE,
     start |-> 0, end |-> 0, benefit |-> 0, alive |-> FALSE]

EmptyHeap == [n \in NodeIds |-> Blank]

ProcIds == 1..MaxProcs

\* An rb_root whose rb_node was never written: some pointer that is not NULL
\* and not a struct profile_range.
WILD == -1

\* A struct mmap_filter_proc that is not allocated.
BlankProc ==
    [alive |-> FALSE, pid |-> 0, filters |-> <<>>, hp_ranges_root |-> NULL,
     eager_ranges_root |-> NULL]

\* enum mm_action_type; MM_ACTION_UNKNOWN stands for every value outside it.
MM_ACTION_NONE == "none"

MM_ACTION_PROMOTE_HUGE == "promote_huge"

MM_ACTION_DEMOTE_HUGE == "demote_huge"

MM_ACTION_RUN_DEFRAG == "run_defrag"

MM_ACTION_RUN_PROMOTION == "run_promotion"

MM_ACTION_RUN_PREZEROING == "run_prezeroing"

MM_ACTION_ALLOC_RECLAIM == "alloc_reclaim"

MM_ACTION_EAGER_PAGING == "eager_paging"

MM_ACTION_UNKNOWN == "unknown"

\* enum free_huge_page_status, in its order
fhps_none == 0

fhps_free == 1

fhps_zeroed == 2

\* A struct mm_cost_delta; ranges is the array extra points to, if it does.
CostDelta(cost, benefit, extra) ==
    [cost |-> cost, benefit |-> benefit, extra |-> extra, ranges |-> <<>>]

\* A struct mm_action, with the pid of current.
NoAction ==
    [action |-> MM_ACTION_NONE, address |-> 0, len |-> 0, prezero_n |-> 0, pid |-> 0]

\* The globals of the estimator as the module is loaded.  tlb_miss_est_fn is
\* NULL or the number of a registered estimator.
EconInit ==
    [mode |-> 0, contention_ms |-> CONTENTION_MS_INIT, freq_mhz |-> FREQ_MHZ_INIT,
     tlb_miss_est_fn |-> NULL,
     num_estimates |-> 0, num_decisions |-> 0, num_decisions_yes |-> 0,
     num_hp_promotions |-> 0,
     num_async_compaction |-> 0, num_async_prezeroing |-> 0]

\* The record of the last call into the estimator: what was called, with
\* what (buf is the text of a write, in the cost_delta as it came in, and
\* the machine as the call saw it: free areas, online cpus, avenrun[0]),
\* and what came back (out the cost_delta, ret the value a store returned,
\* decision what mm_decide returned; bug is set when the call ran into
\* BUG()).  mode is mm_econ_mode as the call found it, fuel the number of
\* vmalloc calls that would succeed.
NoEst ==
    [op |-> "init", buf |-> <<>>, action |-> NoAction,
     given |-> CostDelta(0, 0, 0), in |-> CostDelta(0, 0, 0), out |-> CostDelta(0, 0, 0),
     areas |-> <<>>, ncpus |-> 0, avenrun |-> 0, fuel |-> 0,
     ret |-> 0, decision |-> FALSE, bug |-> FALSE, mode |-> 0]

\* ------------------------------------------------- rb-tree primitives

\* A tree that a function works on is a record with the heap h and the root
\* pointer root; the functions change these two fields and leave every
\* other field of the record alone.  fuel is the number of allocations that
\* still succeed, ok whether the last allocation did, tie whether an insert
\* has linked a node over another.
Tree(h, rt, fuel) == [h |-> h, root |-> rt, fuel |-> fuel, ok |-> TRUE, tie |-> FALSE]

child(h, n, d) == IF d = "l" THEN h[n].l ELSE h[n].r

set_child(h, n, d, v) ==
    IF d = "l" THEN [h EXCEPT ![n].l = v] ELSE [h EXCEPT ![n].r = v]

other(d) == IF d = "l" THEN "r" ELSE "l"

rb_set_parent_color(h, n, p, red) == [h EXCEPT ![n].p = p, ![n].red = red]

rb_set_parent(h, n, p) == [h EXCEPT ![n].p = p]

\* if (n) rb_set_parent_color(n, p, red)
set_parent_color_if(h, n, p, red) ==
    IF n # NULL THEN rb_set_parent_color(h, n, p, red) ELSE h

\* if (n) rb_set_parent(n, p)
set_parent_if(h, n, p) == IF n # NULL THEN rb_set_parent(h, n, p) ELSE h

rb_change_child(t, old, new, parent) ==
    IF parent # NULL
    THEN IF t.h[parent].l = old
         THEN [t EXCEPT !.h[parent].l = new]
         ELSE [t EXCEPT !.h[parent].r = new]
    ELSE [t EXCEPT !.root = new]

rb_rotate_set_parents(t, old, new, red) ==
    rb_change_child(
        [t EXCEPT !.h = rb_set_parent_color(
                            [t.h EXCEPT ![new].p = t.h[old].p, ![new].red = t.h[old].red],
                            old, new, red)],
        old, new, t.h[old].p)

\* Case 2 of __rb_insert: node is the b-child of parent, parent the a-child
\* of its parent; rotate at parent.
rb_insert_case2(h, node, parent, a, b) ==
    rb_set_parent_color(
        set_parent_color_if(
            set_child(set_child(h, parent, b, child(h, node, a)), node, a, parent),
            child(h, node, a), parent, FALSE),
        parent, node, TRUE)

\* Case 3 of __rb_insert: rotate at gparent.
rb_insert_case3(t, parent, gparent, a, b) ==
    rb_rotate_set_parents(
        [t EXCEPT !.h = set_parent_color_if(
                            set_child(set_child(t.h, gparent, a, child(t.h, parent, b)),
                                      parent, b, gparent),
                            child(t.h, parent, b), gparent, FALSE)],
        gparent, parent, TRUE)

\* The loop of __rb_insert, with its variables node and parent.
RECURSIVE rb_insert(_, _, _)
rb_insert(t, node, parent) ==
    IF parent = NULL
    THEN [t EXCEPT !.h = rb_set_parent_color(t.h, node, NULL, FALSE)]
    ELSE IF ~t.h[parent].red
    THEN t
    ELSE
      LET gparent == t.h[parent].p
          a == IF parent # t.h[gparent].r THEN "l" ELSE "r"
          b == other(a)
          uncle == child(t.h, gparent, b)
      IN IF uncle # NULL /\ t.h[uncle].red
         THEN \* Case 1: colour flips, then up the tree
           rb_insert(
               [t EXCEPT !.h = rb_set_parent_color(
                                   rb_set_parent_color(
                                       rb_set_parent_color(t.h, uncle, gparent, FALSE),
                                       parent, gparent, FALSE),
                                   gparent, t.h[gparent].p, TRUE)],
               gparent, t.h[gparent].p)
         ELSE IF node = child(t.h, parent, b)
         THEN rb_insert_case3([t EXCEPT !.h = rb_insert_case2(t.h, node, parent, a, b)],
                              node, gparent, a, b)
         ELSE rb_insert_case3(t, parent, gparent, a, b)

rb_insert_color(t, node) == rb_insert(t, node, t.h[node].p)

\* rb_link_node(node, parent, rb_link): link is <<"root">> or <<side, owner>>.
rb_link_node(t, node, parent, link) ==
    IF link[1] = "root"
    THEN [t EXCEPT !.h[node].p = parent, !.h[node].red = TRUE,
                   !.h[node].l = NULL, !.h[node].r = NULL, !.root = node]
    ELSE [t EXCEPT !.h = set_child([t.h EXCEPT ![node].p = parent, ![node].red = TRUE,
                                               ![node].l = NULL, ![node].r = NULL],
                                   link[2], link[1], node)]

RECURSIVE leftmost(_, _)
leftmost(h, n) == IF h[n].l = NULL THEN n ELSE leftmost(h, h[n].l)

RECURSIVE rightmost(_, _)
rightmost(h, n) == IF h[n].r = NULL THEN n ELSE rightmost(h, h[n].r)

rb_first(h, rt) == IF rt = NULL THEN NULL ELSE leftmost(h, rt)

RECURSIVE climb(_, _, _)
climb(h, node, d) ==
    IF h[node].p # NULL /\ node = child(h, h[node].p, d)
    THEN climb(h, h[node].p, d)
    ELSE h[node].p

rb_next(h, node) ==
    IF h[node].r # NULL THEN leftmost(h, h[node].r) ELSE climb(h, node, "r")

rb_prev(h, node) ==
    IF h[node].l # NULL THEN rightmost(h, h[node].l) ELSE climb(h, node, "l")

\* __rb_erase_augmented, node with a right child chld and a left child: the
\* successor succ takes the place of node.  parent is the parent succ ends
\* with a free left link under, child2 the right child of succ.
erase_successor(t, node, chld, succ, parent, child2) ==
    [t |-> [rb_change_child(
                [t EXCEPT !.h =
                    rb_set_parent(
                        [(IF parent = succ
                          THEN t.h
                          ELSE rb_set_parent([t.h EXCEPT ![parent].l = child2,
                                                         ![succ].r = chld],
                                             chld, succ))
                         EXCEPT ![succ].l = t.h[node].l],
                        t.h[node].l, succ)],
                node, succ, t.h[node].p)
            EXCEPT !.h = set_parent_color_if(
                             [@ EXCEPT ![succ].p = t.h[node].p, ![succ].red = t.h[node].red],
                             child2, parent, FALSE)],
     rebalance |-> IF child2 = NULL /\ ~t.h[succ].red THEN parent ELSE NULL]

\* __rb_erase_augmented: unlink node; the tree, and the node to rebalance at
\* (NULL if none).
rb_erase_augmented(t, node) ==
    LET chld == t.h[node].r
        tmp == t.h[node].l
        pcp == t.h[node].p
        pcred == t.h[node].red
        succ == leftmost(t.h, chld)
    IN IF tmp = NULL
       THEN [t |-> [rb_change_child(t, node, chld, pcp)
                    EXCEPT !.h = set_parent_color_if(@, chld, pcp, pcred)],
             rebalance |-> IF chld = NULL /\ ~pcred THEN pcp ELSE NULL]
       ELSE IF chld = NULL
       THEN [t |-> rb_change_child([t EXCEPT !.h = rb_set_parent_color(@, tmp, pcp, pcred)],
                                   node, tmp, pcp),
             rebalance |-> NULL]
       ELSE erase_successor(t, node, chld, succ,
                            IF succ = chld THEN succ ELSE t.h[succ].p, t.h[succ].r)

RECURSIVE rb_erase_color(_, _, _)

\* Case 1 of ____rb_erase_color: the sibling is red, rotate at parent.
rb_erase_case1(t, parent, sibling, a, b) ==
    rb_rotate_set_parents(
        [t EXCEPT !.h = rb_set_parent_color(
                            set_child(set_child(t.h, parent, b, child(t.h, sibling, a)),
                                      sibling, a, parent),
                            child(t.h, sibling, a), parent, FALSE)],
        parent, sibling, TRUE)

\* Case 2, after the sibling was made red: parent red ends the loop, else the
\* loop goes on at parent.
rb_erase_case2(t, parent) ==
    IF t.h[parent].red
    THEN [t EXCEPT !.h[parent].red = FALSE]
    ELSE IF t.h[parent].p # NULL
    THEN rb_erase_color(t, parent, t.h[parent].p)
    ELSE t

\* Case 3: rotate at sibling; near is the a-child of sibling.
rb_erase_case3(h, parent, sibling, near, a, b) ==
    set_parent_color_if(
        set_child(set_child(set_child(h, sibling, a, child(h, near, b)), near, b, sibling),
                  parent, b, near),
        child(h, near, b), sibling, FALSE)

\* Case 4: rotate at parent and flip colours.
rb_erase_case4(t, parent, sibling, tmp1, a, b) ==
    rb_rotate_set_parents(
        [t EXCEPT !.h = set_parent_if(
                            rb_set_parent_color(
                                set_child(set_child(t.h, parent, b, child(t.h, sibling, a)),
                                          sibling, a, parent),
                                tmp1, sibling, FALSE),
                            child(t.h, sibling, a), parent)],
        parent, sibling, FALSE)

\* Cases 2 to 4, with a black sibling.
rb_erase_black_sibling(t, parent, sibling, a, b) ==
    LET far == child(t.h, sibling, b)
        near == child(t.h, sibling, a)
    IN IF far = NULL \/ ~t.h[far].red
       THEN IF near = NULL \/ ~t.h[near].red
            THEN rb_erase_case2([t EXCEPT !.h = rb_set_parent_color(@, sibling, parent, TRUE)],
                                parent)
            ELSE rb_erase_case4(
                     [t EXCEPT !.h = rb_erase_case3(@, parent, sibling, near, a, b)],
                     parent, near, sibling, a, b)
       ELSE rb_erase_case4(t, parent, sibling, far, a, b)

\* The loop of ____rb_erase_color, with its variables node and parent.
rb_erase_color(t, node, parent) ==
    LET a == IF node # t.h[parent].r THEN "l" ELSE "r"
        b == other(a)
        sibling == child(t.h, parent, b)
    IN IF t.h[sibling].red
       THEN rb_erase_black_sibling(rb_erase_case1(t, parent, sibling, a, b),
                                   parent, child(t.h, sibling, a), a, b)
       ELSE rb_erase_black_sibling(t, parent, sibling, a, b)

\* if (rebalance) ____rb_erase_color(rebalance, root)
rb_erase_rebalance(e) ==
    IF e.rebalance # NULL THEN rb_erase_color(e.t, NULL, e.rebalance) ELSE e.t

rb_erase(t, node) == rb_erase_rebalance(rb_erase_augmented(t, node))

\* ------------------------------------------------- estimator.c: the store

\* u64 arithmetic.
U64(x) == ((x % AddrSpace) + AddrSpace) % AddrSpace

\* mm_econ_vmalloc of a struct profile_range: the lowest free node, or NULL
\* when vmalloc fails (no memory left: fuel allocations succeed at most).
mm_econ_vmalloc(h, fuel) ==
    IF fuel = 0 \/ \A n \in NodeIds : h[n].alive
    THEN NULL
    ELSE CHOOSE n \in NodeIds : ~h[n].alive /\ \A k \in NodeIds : k < n => h[k].alive

\* The node as it leaves mm_econ_vmalloc and gets its three fields.
new_range(h, n, s, e, b) ==
    [h EXCEPT ![n] = [Blank EXCEPT !.start = s, !.end = e, !.benefit = b, !.alive = TRUE]]

mm_econ_vfree(h, n) == [h EXCEPT ![n] = Blank]

\* A search that takes the end of a range for a part of it.
RECURSIVE profile_search_mut(_, _, _)
profile_search_mut(h, node, addr) ==
    IF node = NULL THEN NULL
    ELSE IF h[node].start <= addr /\ addr <= h[node].end THEN node
    ELSE IF addr < h[node].start THEN profile_search_mut(h, h[node].l, addr)
    ELSE profile_search_mut(h, h[node].r, addr)

RECURSIVE profile_search(_, _, _)
profile_search(h, node, addr) ==
    IF node = NULL THEN NULL
    ELSE IF h[node].start <= addr /\ addr < h[node].end THEN node
    ELSE IF addr < h[node].start THEN profile_search(h, h[node].l, addr)
    ELSE profile_search(h, h[node].r, addr)

\* First loop of profile_find_first_range: any range that satisfies the
\* condition (for CompEquals: the range itself).
RECURSIVE find_first_witness(_, _, _, _)
find_first_witness(h, node, addr, comp) ==
    IF node = NULL THEN NULL
    ELSE IF comp = CompLessThan
    THEN IF h[node].start < addr THEN node
         ELSE find_first_witness(h, h[node].l, addr, comp)
    ELSE IF comp = CompGreaterThan
    THEN IF h[node].end > addr THEN node
         ELSE find_first_witness(h, h[node].r, addr, comp)
    ELSE IF h[node].start <= addr /\ addr < h[node].end THEN node
         ELSE IF h[node].start < addr
         THEN find_first_witness(h, h[node].r, addr, comp)
         ELSE find_first_witness(h, h[node].l, addr, comp)

\* Second loop of profile_find_first_range: walk while the condition holds.
RECURSIVE find_first_walk(_, _, _, _, _)
find_first_walk(h, node, result, addr, comp) ==
    IF node = NULL THEN result
    ELSE IF comp = CompLessThan
    THEN IF h[node].start >= addr THEN result
         ELSE find_first_walk(h, rb_next(h, node), node, addr, comp)
    ELSE IF h[node].end <= addr THEN result
         ELSE find_first_walk(h, rb_prev(h, node), node, addr, comp)

\* A lookup that leaves out the second loop.
find_first_from_mut(h, w, addr, comp) == w

\* The end of profile_find_first_range, w what the first loop found.
find_first_from(h, w, addr, comp) ==
    IF w = NULL \/ comp = CompEquals THEN w
    ELSE find_first_walk(h, w, w, addr, comp)

profile_find_first_range(h, rt, addr, comp) ==
    find_first_from(h, find_first_witness(h, rt, addr, comp), addr, comp)

ranges_overlap(h, r1, r2) ==
    \/ (h[r1].start <= h[r2].start /\ h[r2].start < h[r1].end)
    \/ (h[r2].start <= h[r1].start /\ h[r1].start < h[r2].end)

\* First loop of remove_overlapping_ranges: the earliest overlapping node.
RECURSIVE first_overlapping(_, _, _, _)
first_overlapping(h, node, new, found) ==
    IF node = NULL THEN found
    ELSE IF ranges_overlap(h, new, node)
    THEN first_overlapping(h, h[node].l, new, node)
    ELSE IF h[new].start < h[node].start
    THEN first_overlapping(h, h[node].l, new, found)
    ELSE first_overlapping(h, h[node].r, new, found)

\* mm_econ_vfree of a node of the tree record t.
free_node(t, n) == [t EXCEPT !.h = mm_econ_vfree(t.h, n)]

RECURSIVE erase_overlapping(_, _, _)

\* if (!next) break; else the loop goes on at next.
erase_overlapping_next(t, next, new) ==
    IF next = NULL THEN t ELSE erase_overlapping(t, next, new)

\* Second loop of remove_overlapping_ranges: erase and free from node on,
\* while the ranges overlap the new one.
erase_overlapping(t, node, new) ==
    IF ~ranges_overlap(t.h, new, node) THEN t
    ELSE erase_overlapping_next(free_node(rb_erase(t, node), node),
                                rb_next(t.h, node), new)

\* if (!first_overlapping) return; else the second loop.
remove_from(t, fo, new) == IF fo = NULL THEN t ELSE erase_overlapping(t, fo, new)

remove_overlapping_ranges(t, new) ==
    remove_from(t, first_overlapping(t.h, t.root, new, NULL), new)

\* The while loop of profile_range_insert: the link to write and the parent;
\* tie when the loop ends at a node with the start of the new range.
RECURSIVE insert_slot(_, _, _, _, _)
insert_slot(h, cur, link, parent, new) ==
    IF cur = NULL THEN [link |-> link, parent |-> parent, tie |-> FALSE]
    ELSE IF h[new].start < h[cur].start
    THEN insert_slot(h, h[cur].l, <<"l", cur>>, cur, new)
    ELSE IF h[new].start > h[cur].start
    THEN insert_slot(h, h[cur].r, <<"r", cur>>, cur, new)
    ELSE [link |-> link, parent |-> cur, tie |-> TRUE]

\* rb_link_node and rb_insert_color at the slot s the while loop ended with.
insert_link(t, new, s) ==
    rb_insert_color(rb_link_node([t EXCEPT !.tie = t.tie \/ s.tie], new, s.parent, s.link), new)

\* profile_range_insert after remove_overlapping_ranges.
insert_after_removal(t, new) ==
    insert_link(t, new, insert_slot(t.h, t.root, <<"root">>, NULL, new))

profile_range_insert(t, new) ==
    insert_after_removal(remove_overlapping_ranges(t, new), new)

RECURSIVE profile_move(_, _)

\* profile_move after rb_erase(node, src): s is the source tree; the node
\* goes into the tree dst, and the loop goes on at the root of the source.
profile_move_node(s, dst, node) ==
    profile_move(profile_range_insert([s EXCEPT !.root = dst], node), s.root)

\* profile_move(src, dst): t is the tree dst, src the root of the source.
profile_move(t, src) ==
    IF src = NULL THEN t
    ELSE profile_move_node(rb_erase([t EXCEPT !.root = src], src), t.root, src)

RECURSIVE profile_free_all(_)
profile_free_all(t) ==
    IF t.root = NULL THEN t
    ELSE profile_free_all(free_node(rb_erase(t, t.root), t.root))

\* One split of mm_split_ranges with the part cut off taking the benefit of
\* base.
split_left_mut(x, base, at) ==
    LET sr == mm_econ_vmalloc(x.h, x.fuel)
    IN IF sr = NULL
       THEN [x EXCEPT !.ok = FALSE]
       ELSE profile_range_insert(
                [x EXCEPT !.h = [new_range(x.h, sr, x.h[base].start, at, x.h[base].benefit)
                                 EXCEPT ![base].start = at],
                          !.fuel = x.fuel - 1],
                sr)

\* One split of mm_split_ranges that cuts [base.start, at) off the left of
\* base; ok is FALSE when the function returns false.
split_left(x, base, at) ==
    LET sr == mm_econ_vmalloc(x.h, x.fuel)
    IN IF sr = NULL
       THEN [x EXCEPT !.ok = FALSE]
       ELSE profile_range_insert(
                [x EXCEPT !.h = [new_range(x.h, sr, x.h[base].start, at, 0)
                                 EXCEPT ![base].start = at],
                          !.fuel = x.fuel - 1],
                sr)

\* One split of mm_split_ranges that cuts [at, base.end) off the right.
split_right(x, base, at) ==
    LET sr == mm_econ_vmalloc(x.h, x.fuel)
    IN IF sr = NULL
       THEN [x EXCEPT !.ok = FALSE]
       ELSE profile_range_insert(
                [x EXCEPT !.h = [new_range(x.h, sr, at, x.h[base].end, 0)
                                 EXCEPT ![base].end = at],
                          !.fuel = x.fuel - 1],
                sr)

\* CompEquals, "do we need to split on the right?", x what the split on the
\* left has left.
split_equals_right(x, base, at) ==
    IF ~x.ok THEN x
    ELSE IF x.h[base].end > at THEN split_right(x, base, at)
    ELSE x

\* mm_split_ranges on the tree x; ok is the bool the function returns.  base
\* is a node of the tree.
mm_split_ranges(x, base, addr, comp) ==
    IF comp = CompGreaterThan
    THEN IF x.h[base].start >= addr THEN x ELSE split_left(x, base, addr)
    ELSE IF comp = CompLessThan
    THEN IF x.h[base].end <= addr THEN x ELSE split_right(x, base, addr)
    ELSE split_equals_right(
             IF x.h[base].start < addr THEN split_left(x, base, addr) ELSE x,
             base, U64(addr + PageSize))

RECURSIVE copy_range_loop(_, _)

\* node = rb_next(node), and the loop of mm_copy_profile_range goes on.
copy_range_next(x, node) == copy_range_loop(x, rb_next(x.h, node))

\* The loop of mm_copy_profile_range: x is the tree copied into; node walks
\* the old tree.  ok is FALSE when the function returns -1.
copy_range_loop(x, node) ==
    LET nr == mm_econ_vmalloc(x.h, x.fuel)
    IN IF node = NULL THEN x
       ELSE IF nr = NULL THEN [x EXCEPT !.ok = FALSE]
       ELSE copy_range_next(
                profile_range_insert(
                    [x EXCEPT !.h = new_range(x.h, nr, x.h[node].start, x.h[node].end,
                                              x.h[node].benefit),
                              !.fuel = x.fuel - 1],
                    nr),
                node)

mm_copy_profile_range(x, old_root) == copy_range_loop(x, rb_first(x.h, old_root))

\* ------------------------------------------------- views of a tree

\* The nodes a descent from the root can reach (child pointers).
RECURSIVE Reach(_, _)
Reach(h, n) ==
    IF n = NULL THEN {} ELSE {n} \cup Reach(h, h[n].l) \cup Reach(h, h[n].r)

\* The nodes an iteration visits: rb_first, then rb_next until NULL (at most
\* k steps).
RECURSIVE WalkFrom(_, _, _)
WalkFrom(h, n, k) ==
    IF n = NULL \/ k = 0 THEN <<>> ELSE <<n>> \o WalkFrom(h, rb_next(h, n), k - 1)

Walk(h, rt) == WalkFrom(h, rb_first(h, rt), 2 * MaxNodes)

RangeOf(h, n) == <<h[n].start, h[n].end, h[n].benefit>>

\* The (start, end, benefit) triples of a tree.
Ranges(h, rt) == {RangeOf(h, n) : n \in Reach(h, rt)}

\* The number of black nodes on every path from n down to NULL, or -1 when
\* the paths differ or a red node has a red child.
RECURSIVE BlackHeight(_, _)
BlackHeight(h, n) ==
    IF n = NULL THEN 1
    ELSE LET bl == BlackHeight(h, h[n].l)
             br == BlackHeight(h, h[n].r)
             redred == h[n].red /\ \E c \in {h[n].l, h[n].r} : c # NULL /\ h[c].red
         IN IF bl = -1 \/ br = -1 \/ bl # br \/ redred THEN -1
            ELSE bl + (IF h[n].red THEN 0 ELSE 1)

\* A well-formed red-black tree whose in-order walk is the sorted list of
\* its nodes.
RBValid(h, rt) ==
    /\ rt # NULL => h[rt].p = NULL /\ ~h[rt].red
    /\ BlackHeight(h, rt) # -1
    /\ \A n \in Reach(h, rt) :
          /\ h[n].alive
          /\ h[n].l # NULL => h[h[n].l].p = n
          /\ h[n].r # NULL => h[h[n].r].p = n
          /\ \A m \in Reach(h, h[n].l) : h[m].start < h[n].start
          /\ \A m \in Reach(h, h[n].r) : h[m].start > h[n].start
    /\ Len(Walk(h, rt)) = Cardinality(Reach(h, rt))

\* ------------------------------------------------- the stand-alone store

\* The ranges a caller may hand to insert: start <= end, zero length included.
StoreRanges == {se \in (0..MaxAddr) \X (0..MaxAddr) : se[1] <= se[2]}

\* The arguments of mm_add_memory_range but the pid, all 0.
NoMapping ==
    [section |-> "", mapaddr |-> 0, section_off |-> 0, len |-> 0,
     addr |-> 0, prot |-> 0, flags |-> 0, fd |-> 0, off |-> 0]

\* The record of the last operation: what was called and with what (old is
\* the range a split was given, as it was); n counts the operations so far.
\* For a write of text, good and rest are the filters and the text after
\* them that made up the buffer, bytes the count returned, was the profile
\* the pid had before the write and had its filters.
NoOp ==
    [op |-> "init", node |-> NULL, tie |-> FALSE, addr |-> 0, comp |-> CompEquals,
     ok |-> TRUE, old |-> <<0, 0, 0>>, n |-> 0, pid |-> 0, from |-> 0, res |-> "",
     m |-> NoMapping, bytes |-> 0, good |-> <<>>, rest |-> <<>>, had |-> <<>>,
     was |-> NULL]

\* ------------------------------------------------ the lock and the tasks

\* The tasks that are inside calls at the same time.
MaxTasks == 2

\* The most profiles that are ever allocated while they run.
MaxProfiles == 2

Tasks == 1..MaxTasks

ProfileIds == 1..MaxProfiles

\* filter_procs_sem with no holder and no task waiting; queue holds the
\* tasks that have asked for it, in the order they have asked.
SemInit == [writer |-> NULL, readers |-> {}, queue |-> <<>>]

\* A task that is inside no call.  proc is its local pointer to a profile and
\* alloc_new_proc that of mmap_filters_write.
Idle == [op |-> "none", pc |-> "idle", pid |-> 0, proc |-> NULL, alloc_new_proc |-> FALSE]

\* No profile is allocated: list is filter_procs, pid the pid of each
\* profile, allocated whether it has come from vmalloc, freed how often it
\* went to vfree, and half whether the ranges of a mapping are in its huge
\* page tree and not yet in its eager tree.
RegistryInit ==
    [list |-> <<>>,
     pid |-> [o \in ProfileIds |-> 0],
     allocated |-> [o \in ProfileIds |-> FALSE],
     freed |-> [o \in ProfileIds |-> 0],
     half |-> [o \in ProfileIds |-> FALSE]]

\* Nothing has been changed, no profile was used after it was freed, and no
\* reader has looked at the trees of a profile; seen holds what the readers
\* have found half to be.  The log is kept while on is true.
LogInit == [changes |-> {}, stale |-> {}, seen |-> {}, on |-> TRUE]

\* The log that is not kept.
LogOff == [LogInit EXCEPT !.on = FALSE]

\* down_read and down_write return when the semaphore lets them.
down_read_ok(sem) == sem.writer = NULL

down_write_ok(sem) == sem.writer = NULL /\ sem.readers = {}

\* The queue without the task t.
dequeue(queue, t) == SelectSeq(queue, LAMBDA q : q # t)

\* The task t asks for the semaphore.
request(sem, t) == [sem EXCEPT !.queue = Append(dequeue(@, t), t)]

\* A fair semaphore serves the tasks in the order they have asked.
is_next(sem, t) == sem.queue # <<>> /\ Head(sem.queue) = t

down_read(sem, t) ==
    [sem EXCEPT !.readers = @ \cup {t}, !.queue = dequeue(@, t)]

up_read(sem, t) == [sem EXCEPT !.readers = @ \ {t}]

down_write(sem, t) == [sem EXCEPT !.writer = t, !.queue = dequeue(@, t)]

up_write(sem, t) == [sem EXCEPT !.writer = NULL]

\* How the task t holds the semaphore.
held(sem, t) ==
    IF sem.writer = t THEN "write" ELSE IF t \in sem.readers THEN "read" ELSE "none"

\* find_filter_proc_by_pid on the list of the registry.
RECURSIVE find_in(_, _, _)
find_in(reg, list, pid) ==
    IF list = <<>> THEN NULL
    ELSE IF reg.pid[Head(list)] = pid THEN Head(list)
    ELSE find_in(reg, Tail(list), pid)

\* Whether the profile o is linked into the list.
registered(reg, o) == \E i \in 1..Len(reg.list) : reg.list[i] = o

\* The profile vmalloc returns, NULL when there is no memory.
vmalloc_proc(reg) ==
    IF \E o \in ProfileIds : ~reg.allocated[o]
    THEN CHOOSE o \in ProfileIds : ~reg.allocated[o] /\ \A q \in 1..(o - 1) : reg.allocated[q]
    ELSE NULL

\* The task t reads the part what of the profile o.
reads(lg, reg, t, op, what, o) ==
    IF lg.on /\ reg.freed[o] > 0
    THEN [lg EXCEPT !.stale = @ \cup {[op |-> op, what |-> what]}]
    ELSE lg

\* The task t looks at the trees of the linked profile o.
sees(lg, reg, t, op, o) ==
    [reads(lg, reg, t, op, "trees", o) EXCEPT
        !.seen = IF lg.on THEN @ \cup {reg.half[o]} ELSE @]

\* The task t changes the part what (the list, the filters or the trees) of
\* the profile o, holding the semaphore as it does.
changes(lg, reg, sem, t, op, what, o) ==
    [reads(lg, reg, t, op, what, o) EXCEPT
        !.changes =
            IF lg.on
            THEN @ \cup {[op |-> op, what |-> what, mode |-> held(sem, t),
                          registered |-> what = "list" \/ registered(reg, o)]}
            ELSE @]

\* vfree of the profile o; a profile is counted as freed twice at most.
vfree_proc(reg, o) ==
    [reg EXCEPT !.freed[o] = IF @ < 2 THEN @ + 1 ELSE @]

\* An err that returns with the semaphore.
up_read_at_err_mut(sem, t) == sem

\* The up_read at err, the last thing mm_add_memory_range does when it has
\* no memory.
up_read_at_err(sem, t) == up_read(sem, t)

\* A commit that does not take the semaphore.
lock_for_commit_skip(sem, t) == sem

\* A commit that takes the semaphore shared.
lock_for_commit_mut(sem, t) == down_read(sem, t)

\* The down_write before the ranges are moved into the trees of the profile.
lock_for_commit(sem, t) == down_write(sem, t)

InitStore ==
    /\ heap = EmptyHeap
    /\ root = NULL
    /\ last = NoOp
    /\ procs = [i \in ProcIds |-> BlankProc]
    /\ filter_procs = <<>>
    /\ fault = FALSE
    /\ econ = EconInit
    /\ est = NoEst
    /\ filter_procs_sem = SemInit
    /\ task = [t \in Tasks |-> Idle]
    /\ registry = RegistryInit
    /\ log = LogInit

\* profile_range_insert of a freshly allocated range [s, e) with benefit b.
Insert(s, e, b) ==
    /\ ~last.tie
    /\ last.n < MaxOps
    /\ mm_econ_vmalloc(heap, 1) # NULL
    /\ \E t \in {profile_range_insert(
                     Tree(new_range(heap, mm_econ_vmalloc(heap, 1), s, e, b), root, 0),
                     mm_econ_vmalloc(heap, 1))} :
          /\ heap' = t.h
          /\ root' = t.root
          /\ last' = [NoOp EXCEPT !.op = "insert", !.node = mm_econ_vmalloc(heap, 1),
                                   !.tie = t.tie, !.n = last.n + 1]
    /\ UNCHANGED <<procvars, lockvars>>

\* mm_split_ranges on the range profile_find_first_range selects.
Split(addr, comp, fuel) ==
    /\ ~last.tie
    /\ last.n < MaxOps
    /\ \E base \in {profile_find_first_range(heap, root, addr, comp)} :
          /\ base # NULL
          /\ \E x \in {mm_split_ranges(Tree(heap, root, fuel), base, addr, comp)} :
                /\ heap' = x.h
                /\ root' = x.root
                /\ last' = [NoOp EXCEPT !.op = "split", !.node = base, !.addr = addr,
                                         !.comp = comp, !.ok = x.ok,
                                         !.old = RangeOf(heap, base), !.n = last.n + 1]
    /\ UNCHANGED <<procvars, lockvars>>

NextStore ==
    \/ \E se \in StoreRanges : Insert(se[1], se[2], 1)
    \/ \E addr \in 0..MaxAddr, comp \in Comparators, fuel \in 0..2 : Split(addr, comp, fuel)

SpecStore == InitStore /\ [][NextStore]_vars

\* The tree is a well-formed red-black tree unless an insert has just linked
\* a node over another.
StoreRBValid == last.tie \/ RBValid(heap, root)

\* ------------------------------------------------- properties of the store

\* The overlap test as the specification words it.
SpecOverlap(r1, r2) == r1[1] < r2[2] /\ r2[1] < r1[2]

\* The ranges an iteration over the store meets, in the order it meets them.
StoredWalk == [i \in 1..Len(Walk(heap, root)) |-> RangeOf(heap, Walk(heap, root)[i])]

\* C1: after any sequence of inserts no two ranges stored in the tree overlap
\* and the ranges are strictly ordered by start.
C1_NonOverlapOrdered ==
    \A i, j \in 1..Len(StoredWalk) :
        i < j => /\ StoredWalk[i][1] < StoredWalk[j][1]
                 /\ ~SpecOverlap(StoredWalk[i], StoredWalk[j])

\* The range the last insert was given.
InsertedRange == RangeOf(heap', last'.node)

\* C2: an insert of n (one that meets no range with its own start after
\* eviction) leaves exactly n and the ranges r of the store with
\* ~(r.start < n.end /\ n.start < r.end).
C2_EvictionExact ==
    [][(last'.op = "insert" /\ ~last'.tie) =>
          Ranges(heap', root') =
              {InsertedRange} \cup
              {r \in Ranges(heap, root) : ~SpecOverlap(r, InsertedRange)}]_vars

\* The tree the last insert had after its eviction, before it linked the node.
AfterEviction ==
    remove_overlapping_ranges(
        Tree(new_range(heap, last'.node, InsertedRange[1], InsertedRange[2],
                       InsertedRange[3]),
             root, 0),
        last'.node)

\* C3: an insert whose start equals the start of a range still in the store
\* after eviction loses none of the nodes of the store and leaves all starts
\* in the store unique.
C3_TieRejected ==
    [][(last'.op = "insert" /\ last'.tie) =>
          /\ Reach(AfterEviction.h, AfterEviction.root) \subseteq Reach(heap', root')
          /\ \A a, b \in Reach(heap', root') \ {last'.node} :
                 a # b => heap'[a].start # heap'[b].start
          /\ \A a \in Reach(AfterEviction.h, AfterEviction.root) :
                 RangeOf(heap', a) = RangeOf(heap, a)]_vars

Max(a, b) == IF a > b THEN a ELSE b
Min(a, b) == IF a < b THEN a ELSE b

\* The part of old = <<start, end, benefit>> a split at addr with comp keeps.
SplitKept(old, addr, comp) ==
    IF comp = CompGreaterThan THEN <<Max(old[1], addr), old[2], old[3]>>
    ELSE IF comp = CompLessThan THEN <<old[1], Min(old[2], addr), old[3]>>
    ELSE <<Max(old[1], addr), Min(old[2], addr + PageSize), old[3]>>

\* The parts cut off, each with benefit 0.
SplitCut(old, kept) ==
    {c \in {<<old[1], kept[1], 0>>, <<kept[2], old[2], 0>>} : c[1] < c[2]}

\* C4: a split that succeeds keeps, in the range it was given, the part the
\* comparator selects with the benefit the range had, inserts every part cut
\* off with benefit 0, leaves the other ranges alone; the pieces do not
\* overlap and every address of the original range lies in exactly one piece.
C4_SplitCorrect ==
    [][(last'.op = "split" /\ last'.ok) =>
          LET old == last'.old
              kept == SplitKept(old, last'.addr, last'.comp)
              pieces == {kept} \cup SplitCut(old, kept)
          IN /\ RangeOf(heap', last'.node) = kept
             /\ Ranges(heap', root') = (Ranges(heap, root) \ {old}) \cup pieces
             /\ Cardinality(Reach(heap', root')) =
                    Cardinality(Reach(heap, root)) + Cardinality(pieces) - 1
             /\ \A p, q \in pieces : p # q => ~SpecOverlap(p, q)
             /\ \A a \in old[1]..(old[2] - 1) :
                    Cardinality({p \in pieces : p[1] <= a /\ a < p[2]}) = 1]_vars

\* An Eq split that cut a part off on both sides has just returned.
C4_Witness ==
    /\ last.op = "split" /\ last.ok /\ last.comp = CompEquals
    /\ last.old[1] < last.addr /\ last.addr + PageSize < last.old[2]
    /\ Cardinality(Reach(heap, root)) >= 3

\* ------------------------------------------------- estimator.c: profiles

\* x & PAGE_MASK
PageAlign(x) == x - (x % PageSize)

\* find_filter_proc_by_pid: the first profile of the list with this pid.
find_filter_proc_by_pid(ps, list, pid) ==
    LET hits == {i \in 1..Len(list) : ps[list[i]].pid = pid}
    IN IF hits = {} THEN NULL
       ELSE list[CHOOSE i \in hits : \A j \in hits : i <= j]

\* mm_econ_vmalloc of a struct mmap_filter_proc: the lowest free object, or
\* NULL when vmalloc fails.
proc_vmalloc(ps, fuel) ==
    IF fuel = 0 \/ \A i \in ProcIds : ps[i].alive
    THEN NULL
    ELSE CHOOSE i \in ProcIds : ~ps[i].alive /\ \A k \in ProcIds : k < i => ps[k].alive

\* The allocations one filter takes: the struct mmap_filter and one struct
\* mmap_comparison for each of its comparisons.
filter_allocs(filter) == 1 + Len(filter.comparisons)

RECURSIVE filters_allocs(_)
filters_allocs(filters) ==
    IF filters = <<>> THEN 0
    ELSE filter_allocs(Head(filters)) + filters_allocs(Tail(filters))

mm_does_quantity_match(c, val) ==
    IF c.comp = CompEquals THEN val = c.val
    ELSE IF c.comp = CompGreaterThan THEN val > c.val
    ELSE val < c.val

\* The search key and the comparator of a comparison on QuantAddr or
\* QuantSectionOff, for the mapping m.
address_key(m, cmp) ==
    IF cmp.quant = QuantAddr
    THEN [key |-> cmp.val, comparator |-> cmp.comp]
    ELSE IF m.section = SectionMmap
    THEN [key |-> U64(U64(m.mapaddr + m.section_off) - cmp.val),
          comparator |-> IF cmp.comp = CompGreaterThan THEN CompLessThan
                         ELSE IF cmp.comp = CompLessThan THEN CompGreaterThan
                         ELSE cmp.comp]
    ELSE [key |-> U64(U64(m.mapaddr - m.section_off) + cmp.val),
          comparator |-> cmp.comp]

\* The value a comparison on another quantity is made with.
quantity_value(m, quant) ==
    IF quant = QuantLen THEN m.len
    ELSE IF quant = QuantProt THEN m.prot
    ELSE IF quant = QuantFlags THEN m.flags
    ELSE IF quant = QuantFD THEN m.fd
    ELSE m.off

\* The variables of a call of mm_add_memory_range, on top of those of a tree:
\* root is temp_subranges, huge and eager are huge_subranges and
\* eager_subranges, sub is the one of the two the filter at hand applies to,
\* parent is parent_range and range is range; passes is passes_filter, err
\* whether the call is at the label err, done whether the loop over the
\* filters is left by its break, ret whether the call has returned before
\* the loop.
Frame(h, fuel) ==
    [h |-> h, root |-> NULL, fuel |-> fuel, ok |-> TRUE, tie |-> FALSE,
     huge |-> NULL, eager |-> NULL, sub |-> NULL, parent |-> NULL, range |-> NULL,
     passes |-> TRUE, err |-> FALSE, done |-> FALSE, ret |-> FALSE]

\* profile_free_all(&huge_subranges); profile_free_all(&eager_subranges)
free_both(x) ==
    profile_free_all([profile_free_all([x EXCEPT !.root = x.huge]) EXCEPT !.root = x.eager])

\* What follows mm_split_ranges in an address comparison: on false,
\* profile_free_all(&temp_subranges) and goto err.
split_result(c) ==
    IF c.ok THEN c ELSE [profile_free_all(c) EXCEPT !.err = TRUE]

\* An end of an address comparison that gives the benefit to the range of
\* subranges as well.
assign_and_split_mut(c, benefit, k) ==
    IF ~c.passes \/ c.err THEN c
    ELSE split_result(mm_split_ranges([c EXCEPT !.h[c.range].benefit = benefit,
                                                !.h[c.parent].benefit = benefit],
                                      c.range, k.key, k.comparator))

\* The end of an address comparison: the range takes the filter's benefit and
\* is split in temp_subranges.
assign_and_split(c, benefit, k) ==
    IF ~c.passes \/ c.err THEN c
    ELSE split_result(mm_split_ranges([c EXCEPT !.h[c.range].benefit = benefit],
                                      c.range, k.key, k.comparator))

\* The first address comparison of a filter: pr is the range of subranges
\* that profile_find_first_range gave.
first_address(c, pr) ==
    LET range == mm_econ_vmalloc(c.h, c.fuel)
    IN IF pr = NULL THEN [c EXCEPT !.passes = FALSE]
       ELSE IF c.h[pr].benefit # 0 THEN [c EXCEPT !.parent = pr, !.passes = FALSE]
       ELSE IF range = NULL
       THEN [profile_free_all(c) EXCEPT !.parent = pr, !.err = TRUE]
       ELSE profile_range_insert(
                [c EXCEPT !.parent = pr, !.range = range,
                          !.h = new_range(c.h, range, c.h[pr].start, c.h[pr].end,
                                          c.h[pr].benefit),
                          !.fuel = c.fuel - 1],
                range)

\* A later address comparison: found is the range of temp_subranges that
\* profile_find_first_range gave.
later_address(c, found) ==
    IF found = NULL THEN [c EXCEPT !.passes = FALSE] ELSE [c EXCEPT !.range = found]

\* A comparison on QuantAddr or QuantSectionOff.
address_comparison(c, m, benefit, cmp) ==
    LET k == address_key(m, cmp)
    IN assign_and_split(
           IF c.parent = NULL
           THEN first_address(c, profile_find_first_range(c.h, c.sub, k.key, k.comparator))
           ELSE later_address(c, profile_find_first_range(c.h, c.root, k.key, k.comparator)),
           benefit, k)

\* The loop over the comparisons of one filter, from the i-th on.
RECURSIVE eval_comparisons(_, _, _, _)
eval_comparisons(c, m, filter, i) ==
    IF i > Len(filter.comparisons) \/ ~c.passes \/ c.err THEN c
    ELSE eval_comparisons(
             IF filter.comparisons[i].quant \in {QuantSectionOff, QuantAddr}
             THEN address_comparison(c, m, filter.benefit, filter.comparisons[i])
             ELSE [c EXCEPT !.passes =
                      c.passes /\ mm_does_quantity_match(
                                      filter.comparisons[i],
                                      quantity_value(m, filter.comparisons[i].quant))],
             m, filter, i + 1)

\* The loop giving the benefit to every range, whether it has one or not.
RECURSIVE fill_benefit_mut(_, _, _)
fill_benefit_mut(h, node, benefit) ==
    IF node = NULL THEN h
    ELSE fill_benefit_mut([h EXCEPT ![node].benefit = benefit], rb_next(h, node), benefit)

\* The loop that gives the benefit to every range that has none, from node on.
RECURSIVE fill_benefit(_, _, _)
fill_benefit(h, node, benefit) ==
    IF node = NULL THEN h
    ELSE fill_benefit(IF h[node].benefit = 0 THEN [h EXCEPT ![node].benefit = benefit] ELSE h,
                      rb_next(h, node), benefit)

\* The tree a filter of this policy works on.
subranges(e, policy) == IF policy = PolicyHugePage THEN e.huge ELSE e.eager

\* The tree x.root becomes the tree of this policy.
set_subranges(x, policy) ==
    IF policy = PolicyHugePage THEN [x EXCEPT !.huge = x.root] ELSE [x EXCEPT !.eager = x.root]

\* "If we split a range for this filter, remove the old range from the
\* subranges tree, and add the new ones."
replace_parent(c) ==
    profile_move(free_node(rb_erase([c EXCEPT !.root = c.sub], c.parent), c.parent), c.root)

\* An end of a turn in which a filter that takes the whole mapping fills the
\* trees of both policies.
filter_end_mut(c, filter) ==
    IF c.err \/ ~c.passes THEN c
    ELSE IF c.parent # NULL THEN set_subranges(replace_parent(c), filter.policy)
    ELSE [c EXCEPT !.h = fill_benefit(fill_benefit(c.h, rb_first(c.h, c.huge), filter.benefit),
                                      rb_first(c.h, c.eager), filter.benefit),
                   !.done = TRUE]

\* What a turn of the loop over the filters does after the comparisons.
filter_end(c, filter) ==
    IF c.err \/ ~c.passes THEN c
    ELSE IF c.parent # NULL THEN set_subranges(replace_parent(c), filter.policy)
    ELSE [c EXCEPT !.h = fill_benefit(c.h, rb_first(c.h, c.sub), filter.benefit),
                   !.done = TRUE]

\* One turn of the loop over the filters.
eval_filter(e, m, filter) ==
    filter_end(
        eval_comparisons(
            [e EXCEPT !.root = NULL, !.sub = subranges(e, filter.policy), !.parent = NULL,
                      !.range = NULL, !.passes = (m.section = filter.section)],
            m, filter, 1),
        filter)

\* eval_filters without the break that follows a match of the whole mapping.
RECURSIVE eval_filters_mut(_, _, _, _)
eval_filters_mut(e, m, filters, i) ==
    IF i > Len(filters) \/ e.err THEN e
    ELSE eval_filters_mut(eval_filter(e, m, filters[i]), m, filters, i + 1)

\* The loop over the filters, from the i-th on.
RECURSIVE eval_filters(_, _, _, _)
eval_filters(e, m, filters, i) ==
    IF i > Len(filters) \/ e.err \/ e.done THEN e
    ELSE eval_filters(eval_filter(e, m, filters[i]), m, filters, i + 1)

\* The copy of huge_subranges into eager_subranges, x what the insert of the
\* baseline range has left.
copy_baseline(x) ==
    mm_copy_profile_range([x EXCEPT !.huge = x.root, !.root = NULL], x.root)

\* The working trees are set; ret when the copy has failed.
baseline_copied(x) == [x EXCEPT !.eager = x.root, !.root = NULL, !.ret = ~x.ok]

\* Working trees whose baseline ends at the page the mapping ends in.
working_trees_mut(h, m, fuel) ==
    LET range == mm_econ_vmalloc(h, fuel)
    IN IF range = NULL
       THEN [Frame(h, fuel) EXCEPT !.ok = FALSE, !.ret = TRUE]
       ELSE baseline_copied(copy_baseline(
                profile_range_insert(
                    Frame(new_range(h, range, PageAlign(m.mapaddr),
                                    PageAlign(U64(m.mapaddr + m.len)), 0),
                          fuel - 1),
                    range)))

\* The two working trees of mm_add_memory_range before the loop over the
\* filters: the baseline range in huge, its copy in eager.
working_trees(h, m, fuel) ==
    LET range == mm_econ_vmalloc(h, fuel)
    IN IF range = NULL
       THEN [Frame(h, fuel) EXCEPT !.ok = FALSE, !.ret = TRUE]
       ELSE baseline_copied(copy_baseline(
                profile_range_insert(
                    Frame(new_range(h, range, PageAlign(m.mapaddr),
                                    PageAlign(U64(m.mapaddr + m.len + PageSize - 1)), 0),
                          fuel - 1),
                    range)))

\* The loop over the filters, unless the call has returned.
filter_loop(w, m, filters) == IF w.ret THEN w ELSE eval_filters(w, m, filters, 1)

\* What mm_add_memory_range has done when both moves are made.
commit_done(x, ps, proc) ==
    [h |-> x.h,
     procs |-> [ps EXCEPT ![proc].hp_ranges_root = x.huge, ![proc].eager_ranges_root = x.root],
     res |-> "ok", tie |-> x.tie]

\* profile_move(&eager_subranges, &proc->eager_ranges_root), x what the move
\* of huge_subranges has left.
commit_eager(x, ps, proc) ==
    IF ps[proc].eager_ranges_root = WILD
    THEN [h |-> x.h, procs |-> [ps EXCEPT ![proc].hp_ranges_root = x.root],
          res |-> "fault", tie |-> x.tie]
    ELSE commit_done(profile_move([x EXCEPT !.huge = x.root,
                                            !.root = ps[proc].eager_ranges_root],
                                  x.eager),
                     ps, proc)

\* The end of mm_add_memory_range, e what the loop over the filters has left.
add_end(e, ps, proc) ==
    IF e.ret THEN [h |-> e.h, procs |-> ps, res |-> "nomem", tie |-> FALSE]
    ELSE IF e.err THEN [h |-> free_both(e).h, procs |-> ps, res |-> "nomem", tie |-> FALSE]
    ELSE commit_eager(profile_move([e EXCEPT !.root = ps[proc].hp_ranges_root], e.huge),
                      ps, proc)

\* mm_add_memory_range with the lookup of the profile made after the baseline
\* range is allocated.
mm_add_memory_range_mut(h, ps, list, pid, m, fuel) ==
    LET proc == find_filter_proc_by_pid(ps, list, pid)
    IN IF proc = NULL
       THEN [h |-> working_trees(h, m, fuel).h, procs |-> ps, res |-> "noproc",
             tie |-> FALSE]
       ELSE add_end(filter_loop(working_trees(h, m, fuel), m, ps[proc].filters), ps, proc)

\* mm_add_memory_range: the heap and the profiles it leaves, res what became
\* of the call ("noproc", "nomem", "fault" or "ok"), tie whether the commit
\* linked a node over another.
mm_add_memory_range(h, ps, list, pid, m, fuel) ==
    LET proc == find_filter_proc_by_pid(ps, list, pid)
    IN IF proc = NULL THEN [h |-> h, procs |-> ps, res |-> "noproc", tie |-> FALSE]
       ELSE add_end(filter_loop(working_trees(h, m, fuel), m, ps[proc].filters), ps, proc)

\* The end of mm_copy_profile, ce what the copy of the eager tree has left.
copy_profile_end(ce, ps, list, proc, new_proc, new_pid) ==
    IF ~ce.ok
    THEN [h |-> free_both([ce EXCEPT !.eager = ce.root]).h, procs |-> ps, list |-> list,
          res |-> "nomem"]
    ELSE [h |-> ce.h,
          procs |-> [ps EXCEPT ![new_proc] =
                        [alive |-> TRUE, pid |-> new_pid, filters |-> ps[proc].filters,
                         hp_ranges_root |-> ce.huge, eager_ranges_root |-> ce.root]],
          list |-> Append(list, new_proc), res |-> "ok"]

\* The copy of the eager tree, ch what the copy of the huge tree has left.
copy_profile_eager(ch, ps, list, proc, new_proc, new_pid) ==
    IF ~ch.ok
    THEN [h |-> profile_free_all(ch).h, procs |-> ps, list |-> list, res |-> "nomem"]
    ELSE IF ps[proc].eager_ranges_root = WILD
    THEN [h |-> ch.h, procs |-> ps, list |-> list, res |-> "fault"]
    ELSE copy_profile_end(
             mm_copy_profile_range([ch EXCEPT !.huge = ch.root, !.root = NULL],
                                   ps[proc].eager_ranges_root),
             ps, list, proc, new_proc, new_pid)

\* mm_copy_profile: the heap, the profiles and the list it leaves.
mm_copy_profile(h, ps, list, old_pid, new_pid, fuel) ==
    LET proc == find_filter_proc_by_pid(ps, list, old_pid)
        new_proc == proc_vmalloc(ps, fuel)
        need == filters_allocs(ps[proc].filters)
    IN IF proc = NULL
       THEN [h |-> h, procs |-> ps, list |-> list, res |-> "noproc"]
       ELSE IF new_proc = NULL \/ fuel - 1 < need
       THEN [h |-> h, procs |-> ps, list |-> list, res |-> "nomem"]
       ELSE copy_profile_eager(
                mm_copy_profile_range(Frame(h, fuel - 1 - need), ps[proc].hp_ranges_root),
                ps, list, proc, new_proc, new_pid)

\* list_del of the profile proc.
list_del(list, proc) == SelectSeq(list, LAMBDA q : q # proc)

\* The end of mm_profile_check_exiting_proc, fe what the two profile_free_all
\* have left.
exit_end(fe, ps, list, proc) ==
    [h |-> fe.h, procs |-> [ps EXCEPT ![proc] = BlankProc],
     list |-> list_del(list, proc), res |-> "ok"]

\* profile_free_all(&proc->eager_ranges_root), fh what the one of
\* hp_ranges_root has left.
exit_eager(fh, ps, list, proc) ==
    IF ps[proc].eager_ranges_root = WILD
    THEN [h |-> fh.h, procs |-> [ps EXCEPT ![proc].hp_ranges_root = NULL],
          list |-> list, res |-> "fault"]
    ELSE exit_end(profile_free_all([fh EXCEPT !.root = ps[proc].eager_ranges_root]),
                  ps, list, proc)

\* mm_profile_check_exiting_proc: the heap, the profiles and the list it leaves.
mm_profile_check_exiting_proc(h, ps, list, pid) ==
    LET proc == find_filter_proc_by_pid(ps, list, pid)
    IN IF proc = NULL THEN [h |-> h, procs |-> ps, list |-> list, res |-> "noproc"]
       ELSE exit_eager(profile_free_all(Tree(h, ps[proc].hp_ranges_root, 0)),
                       ps, list, proc)

\* A line of a filter write that does not parse: no policy is read from it.
Malformed == [policy |-> "", section |-> "", benefit |-> 0, comparisons |-> <<>>]

\* The loop over the lines that goes on to the next line where it should
\* break.
RECURSIVE read_filters_mut(_, _, _)
read_filters_mut(w, lines, i) ==
    IF i > Len(lines) \/ w.nomem THEN w
    ELSE IF w.fuel = 0 THEN [w EXCEPT !.nomem = TRUE]
    ELSE IF lines[i] = Malformed THEN read_filters_mut(w, lines, i + 1)
    ELSE IF w.fuel < filter_allocs(lines[i]) THEN [w EXCEPT !.nomem = TRUE]
    ELSE read_filters_mut([w EXCEPT !.filters = Append(w.filters, lines[i]),
                                    !.fuel = w.fuel - filter_allocs(lines[i]),
                                    !.read = w.read + 1],
                          lines, i + 1)

\* The loop of mmap_filters_write over the lines, from the i-th on: w is
\* [filters, fuel, read, nomem], filters the list of the profile, read the
\* number of filters added so far.
RECURSIVE read_filters(_, _, _)
read_filters(w, lines, i) ==
    IF i > Len(lines) \/ w.nomem THEN w
    ELSE IF w.fuel = 0 THEN [w EXCEPT !.nomem = TRUE]
    ELSE IF lines[i] = Malformed THEN w
    ELSE IF w.fuel < filter_allocs(lines[i]) THEN [w EXCEPT !.nomem = TRUE]
    ELSE read_filters([w EXCEPT !.filters = Append(w.filters, lines[i]),
                                !.fuel = w.fuel - filter_allocs(lines[i]),
                                !.read = w.read + 1],
                      lines, i + 1)

\* mmap_filters_write for the process pid: the profiles and the list it
\* leaves, res what it returns ("ok" for the bytes read).  eager is what the
\* memory of a new profile holds where eager_ranges_root lies.
mmap_filters_write(ps, list, pid, lines, fuel, eager) ==
    LET found == find_filter_proc_by_pid(ps, list, pid)
        alloc_new_proc == found = NULL
        proc == IF alloc_new_proc THEN proc_vmalloc(ps, fuel - 1) ELSE found
        ps1 == IF alloc_new_proc
               THEN [ps EXCEPT ![proc] = [alive |-> TRUE, pid |-> pid, filters |-> <<>>,
                                          hp_ranges_root |-> NULL,
                                          eager_ranges_root |-> eager]]
               ELSE ps
        w == read_filters([filters |-> ps1[proc].filters,
                           fuel |-> IF alloc_new_proc THEN fuel - 2 ELSE fuel - 1,
                           read |-> 0, nomem |-> FALSE], lines, 1)
    IN IF fuel = 0 \/ proc = NULL
       THEN [procs |-> ps, list |-> list, res |-> "nomem", read |-> 0]
       ELSE IF w.nomem \/ w.read = 0
       THEN [procs |-> [ps1 EXCEPT ![proc] = IF alloc_new_proc THEN BlankProc
                                             ELSE [@ EXCEPT !.filters = <<>>]],
             list |-> list, res |-> IF w.nomem THEN "nomem" ELSE "inval", read |-> w.read]
       ELSE [procs |-> [ps1 EXCEPT ![proc].filters = w.filters],
             list |-> IF alloc_new_proc THEN Append(list, proc) ELSE list,
             res |-> "ok", read |-> w.read]

\* ------------------------------------------------- estimator.c: filter text

\* A C string is the sequence of its characters, each a one-character
\* string; STR holds the string literals of estimator.c.
STR ==
    [huge |-> <<"h", "u", "g", "e">>,
     eager |-> <<"e", "a", "g", "e", "r">>,
     code |-> <<"c", "o", "d", "e">>,
     data |-> <<"d", "a", "t", "a">>,
     heap |-> <<"h", "e", "a", "p">>,
     mmap |-> <<"m", "m", "a", "p">>,
     section_off |-> <<"s", "e", "c", "t", "i", "o", "n", "_", "o", "f", "f">>,
     addr |-> <<"a", "d", "d", "r">>,
     len |-> <<"l", "e", "n">>,
     prot |-> <<"p", "r", "o", "t">>,
     flags |-> <<"f", "l", "a", "g", "s">>,
     fd |-> <<"f", "d">>,
     off |-> <<"o", "f", "f">>]

COMMA == ","

NEWLINE == "\n"

\* The digits of "%llx", in order of value.
HexDigits ==
    <<"0", "1", "2", "3", "4", "5", "6", "7", "8", "9", "a", "b", "c", "d", "e", "f">>

\* The value of the character c as a digit, or 16 when it is none.
digit_value(c) ==
    IF \E i \in 1..16 : HexDigits[i] = c
    THEN (CHOOSE i \in 1..16 : HexDigits[i] = c) - 1
    ELSE 16

\* _parse_integer_fixup_radix with base 0: "0x" and a hex digit select 16, a
\* leading "0" selects 8, anything else 10.
fixup_radix(s) ==
    IF Len(s) >= 1 /\ s[1] = "0"
    THEN IF Len(s) >= 3 /\ s[2] = "x" /\ digit_value(s[3]) < 16 THEN 16 ELSE 8
    ELSE 10

\* _parse_integer from the i-th character on: p is [val, rv, overflow] with
\* rv the number of characters taken.  max is the largest value of the type.
RECURSIVE parse_integer(_, _, _, _, _)
parse_integer(s, i, base, max, p) ==
    IF i > Len(s) \/ digit_value(s[i]) >= base THEN p
    ELSE parse_integer(s, i + 1, base, max,
             IF p.overflow \/ p.val > (max - digit_value(s[i])) \div base
             THEN [p EXCEPT !.overflow = TRUE, !.rv = p.rv + 1]
             ELSE [p EXCEPT !.val = p.val * base + digit_value(s[i]), !.rv = p.rv + 1])

\* The end of _kstrtoull: p what _parse_integer found from the i-th character
\* on.  One newline may follow the digits, and nothing else.
kstrtoull_end(s, i, p) ==
    IF p.overflow THEN [ret |-> -ERANGE, val |-> 0]
    ELSE IF p.rv = 0 THEN [ret |-> -EINVAL, val |-> 0]
    ELSE IF i + p.rv > Len(s) THEN [ret |-> 0, val |-> p.val]
    ELSE IF s[i + p.rv] = NEWLINE /\ i + p.rv = Len(s) THEN [ret |-> 0, val |-> p.val]
    ELSE [ret |-> -EINVAL, val |-> 0]

\* _kstrtoull of the text from the i-th character on.
kstrtoull_from(s, i, base, max) ==
    kstrtoull_end(s, IF base = 16 THEN i + 2 ELSE i,
                  parse_integer(s, IF base = 16 THEN i + 2 ELSE i, base, max,
                                [val |-> 0, rv |-> 0, overflow |-> FALSE]))

\* kstrtoull(s, 0, &res) for a type with largest value max: [ret, val].
kstrtoull(s, max) ==
    IF Len(s) >= 1 /\ s[1] = "+"
    THEN kstrtoull_from(s, 2, fixup_radix(Tail(s)), max)
    ELSE kstrtoull_from(s, 1, fixup_radix(s), max)

\* The sign that kstrtoll puts on what _kstrtoull read.
negated(r) == IF r.ret = 0 THEN [r EXCEPT !.val = -r.val] ELSE r

\* kstrtoint(s, 0, &res): [ret, val].  The model's texts are short of the
\* values between INT_MAX and LLONG_MAX, so one range check does for both.
kstrtoint(s) ==
    IF Len(s) >= 1 /\ s[1] = "-"
    THEN negated(kstrtoull_from(s, 2, fixup_radix(Tail(s)), INT_MAX))
    ELSE kstrtoull(s, INT_MAX)

\* The largest value of the model's u64.
ULLONG_MAX == CostSpace - 1

\* The index of the first delim in s from the i-th character on, or 0.
RECURSIVE strchr(_, _, _)
strchr(s, delim, i) ==
    IF i > Len(s) THEN 0
    ELSE IF s[i] = delim THEN i
    ELSE strchr(s, delim, i + 1)

\* strsep(&s, delim) with the delimiter at k (0: none): the token, the rest,
\* and whether s is left pointing at a rest (not NULL).
strsep_at(s, k) ==
    IF k = 0 THEN [tok |-> s, rest |-> <<>>, more |-> FALSE]
    ELSE [tok |-> SubSeq(s, 1, k - 1), rest |-> SubSeq(s, k + 1, Len(s)), more |-> TRUE]

strsep(s, delim) == strsep_at(s, strchr(s, delim, 1))

\* The tokens that repeated strsep(&s, delim) hands out until s is NULL.
RECURSIVE tokens_from(_, _)
tokens_from(x, delim) ==
    IF x.more THEN <<x.tok>> \o tokens_from(strsep(x.rest, delim), delim)
    ELSE <<x.tok>>

tokens(s, delim) == tokens_from(strsep(s, delim), delim)

\* get_mm_policy: the policy, or "" for -1.
get_mm_policy(buf) ==
    IF buf = STR.huge THEN PolicyHugePage
    ELSE IF buf = STR.eager THEN PolicyEagerPage
    ELSE ""

\* get_memory_section: the section, or "" for -1.
get_memory_section(buf) ==
    IF buf = STR.code THEN SectionCode
    ELSE IF buf = STR.data THEN SectionData
    ELSE IF buf = STR.heap THEN SectionHeap
    ELSE IF buf = STR.mmap THEN SectionMmap
    ELSE ""

\* get_mmap_quantity: the quantity, or "" for -1.
get_mmap_quantity(buf) ==
    IF buf = STR.section_off THEN QuantSectionOff
    ELSE IF buf = STR.addr THEN QuantAddr
    ELSE IF buf = STR.len THEN QuantLen
    ELSE IF buf = STR.prot THEN QuantProt
    ELSE IF buf = STR.flags THEN QuantFlags
    ELSE IF buf = STR.fd THEN QuantFD
    ELSE IF buf = STR.off THEN QuantOff
    ELSE ""

\* get_mmap_comparator: the comparator, or "" for -1.
get_mmap_comparator(buf) ==
    IF buf = <<"=">> THEN CompEquals
    ELSE IF buf = <<">">> THEN CompGreaterThan
    ELSE IF buf = <<"<">> THEN CompLessThan
    ELSE ""

\* mmap_filter_read_comparison on the tokens f from the i-th on: the
\* comparison, or the comparison with quant "" for -1.
mmap_filter_read_comparison(f, i) ==
    IF get_mmap_quantity(f[i]) = "" THEN [quant |-> "", comp |-> "", val |-> 0]
    ELSE IF i + 1 > Len(f) \/ get_mmap_comparator(f[i + 1]) = ""
    THEN [quant |-> "", comp |-> "", val |-> 0]
    ELSE IF i + 2 > Len(f) \/ kstrtoull(f[i + 2], ULLONG_MAX).ret # 0
    THEN [quant |-> "", comp |-> "", val |-> 0]
    ELSE [quant |-> get_mmap_quantity(f[i]), comp |-> get_mmap_comparator(f[i + 1]),
          val |-> kstrtoull(f[i + 2], ULLONG_MAX).val]

\* The loop of mmap_filters_write over the comparisons of a line, on the
\* tokens f from the i-th on: x is [ok, comparisons].  The loop ends when
\* tok is NULL or points at the end of the line.
RECURSIVE read_comparisons(_, _, _)
read_comparisons(f, i, x) ==
    IF i > Len(f) THEN x
    ELSE IF i = Len(f) /\ f[i] = <<>> THEN x
    ELSE IF mmap_filter_read_comparison(f, i).quant = "" THEN [x EXCEPT !.ok = FALSE]
    ELSE read_comparisons(f, i + 3,
             [x EXCEPT !.comparisons = Append(x.comparisons, mmap_filter_read_comparison(f, i))])

\* The filter of a line whose policy, section and benefit were read.
filter_of(policy, section, benefit, x) ==
    IF x.ok
    THEN [policy |-> policy, section |-> section, benefit |-> benefit,
          comparisons |-> x.comparisons]
    ELSE Malformed

\* The body of the loop of mmap_filters_write over the lines, for the line
\* with the tokens f: the filter it adds, or Malformed when it breaks.
read_filter(f) ==
    IF get_mm_policy(f[1]) = "" THEN Malformed
    ELSE IF Len(f) < 2 \/ get_memory_section(f[2]) = "" THEN Malformed
    ELSE IF Len(f) < 3 \/ kstrtoull(f[3], ULLONG_MAX).ret # 0 THEN Malformed
    ELSE filter_of(get_mm_policy(f[1]), get_memory_section(f[2]),
                   kstrtoull(f[3], ULLONG_MAX).val,
                   read_comparisons(f, 4, [ok |-> TRUE, comparisons |-> <<>>]))

\* The lines the loop of mmap_filters_write looks at, from the j-th token of
\* the buffer on: those that a newline ends, up to the first empty one.
RECURSIVE read_lines(_, _)
read_lines(toks, j) ==
    IF j >= Len(toks) \/ toks[j] = <<>> THEN <<>>
    ELSE <<read_filter(tokens(toks[j], COMMA))>> \o read_lines(toks, j + 1)

\* bytes_read that leaves out the newline strsep removed.
RECURSIVE bytes_read_mut(_, _)
bytes_read_mut(toks, k) ==
    IF k = 0 THEN 0 ELSE bytes_read_mut(toks, k - 1) + Len(toks[k])

\* bytes_read after k lines: strlen of each and its newline.
RECURSIVE bytes_read(_, _)
bytes_read(toks, k) ==
    IF k = 0 THEN 0 ELSE bytes_read(toks, k - 1) + Len(toks[k]) + 1

\* What mmap_filters_write returns for the buffer with the tokens toks: the
\* bytes read, or the error.
write_result(r, toks) ==
    [procs |-> r.procs, list |-> r.list, res |-> r.res,
     bytes |-> IF r.res = "ok" THEN bytes_read(toks, r.read) ELSE 0]

\* mmap_filters_write of the text buf.
mmap_filters_write_buf(ps, list, pid, buf, fuel, eager) ==
    write_result(mmap_filters_write(ps, list, pid,
                                    read_lines(tokens(buf, NEWLINE), 1), fuel, eager),
                 tokens(buf, NEWLINE))

\* "%llx"
RECURSIVE sprintf_llx(_)
sprintf_llx(v) ==
    IF v < 16 THEN <<HexDigits[v + 1]>>
    ELSE sprintf_llx(v \div 16) \o <<HexDigits[(v % 16) + 1]>>

mm_policy_get_str(policy) ==
    IF policy = PolicyHugePage THEN STR.huge ELSE STR.eager

mm_memory_section_get_str(section) ==
    IF section = SectionCode THEN STR.code
    ELSE IF section = SectionData THEN STR.data
    ELSE IF section = SectionHeap THEN STR.heap
    ELSE STR.mmap

mmap_comparator_get_char(comp) == <<comp>>

mmap_quantity_get_str(quant) ==
    IF quant = QuantSectionOff THEN STR.section_off
    ELSE IF quant = QuantAddr THEN STR.addr
    ELSE IF quant = QuantLen THEN STR.len
    ELSE IF quant = QuantProt THEN STR.prot
    ELSE IF quant = QuantFlags THEN STR.flags
    ELSE IF quant = QuantFD THEN STR.fd
    ELSE STR.off

\* mmap_filters_read, the text of the comparisons of a filter from the i-th
\* on: ",%s,%c,0x%llx" for each.
RECURSIVE sprintf_comparisons(_, _)
sprintf_comparisons(cs, i) ==
    IF i > Len(cs) THEN <<>>
    ELSE <<COMMA>> \o mmap_quantity_get_str(cs[i].quant) \o <<COMMA>>
         \o mmap_comparator_get_char(cs[i].comp) \o <<COMMA, "0", "x">>
         \o sprintf_llx(cs[i].val) \o sprintf_comparisons(cs, i + 1)

\* mmap_filters_read, the line of one filter: "%s,%s,0x%llx", its
\* comparisons, and the newline.
sprintf_filter(filter) ==
    mm_policy_get_str(filter.policy) \o <<COMMA>>
    \o mm_memory_section_get_str(filter.section) \o <<COMMA, "0", "x">>
    \o sprintf_llx(filter.benefit) \o sprintf_comparisons(filter.comparisons, 1)
    \o <<NEWLINE>>

\* mmap_filters_read, the lines of the filters from the i-th on.
RECURSIVE sprintf_filters(_, _)
sprintf_filters(filters, i) ==
    IF i > Len(filters) THEN <<>>
    ELSE sprintf_filter(filters[i]) \o sprintf_filters(filters, i + 1)

\* ------------------------------------------------- the registry of profiles

Pids == {1, 2}

Comparison(quant, comp, val) == [quant |-> quant, comp |-> comp, val |-> val]

Filter(policy, section, benefit, comparisons) ==
    [policy |-> policy, section |-> section, benefit |-> benefit,
     comparisons |-> comparisons]

\* The filters a write may carry: one that takes the whole mapping, one that
\* takes it if it is longer than 1, one with two comparisons on the address.
FilterPool ==
    {Filter(PolicyHugePage, SectionMmap, 1, <<>>),
     Filter(PolicyHugePage, SectionMmap, MaxBenefit,
            <<Comparison(QuantLen, CompGreaterThan, 1)>>),
     Filter(PolicyEagerPage, SectionMmap, MaxBenefit,
            <<Comparison(QuantAddr, CompGreaterThan, PageSize),
              Comparison(QuantAddr, CompLessThan, 1)>>)}

\* The writes: one filter line, or one line that does not parse.
WriteInputs == {<<f>> : f \in FilterPool} \cup {<<Malformed>>}

Mapping(section, mapaddr, section_off, len) ==
    [NoMapping EXCEPT !.section = section, !.mapaddr = mapaddr,
                      !.section_off = section_off, !.len = len]

\* The mappings a process makes: two pages of the mmap section, one page of
\* the heap, and a mapping of length 0.
Mappings ==
    {Mapping(SectionMmap, 0, 0, 2 * PageSize),
     Mapping(SectionHeap, PageSize, 1, PageSize),
     Mapping(SectionMmap, 0, 0, 0)}

\* The numbers of allocations that succeed before vmalloc fails in a call.
Fuels == (0..MaxFuel) \cup {Plenty}

\* The same for a filter write: the buffer, and the profile or the filter.
WriteFuels == {0, 1, Plenty}

\* A write of lines to the filter file of the process pid.
Write(pid, lines, fuel, eager) ==
    /\ ~fault /\ ~last.tie
    /\ last.n < MaxCalls
    /\ eager = WILD => find_filter_proc_by_pid(procs, filter_procs, pid) = NULL
    /\ \E r \in {mmap_filters_write(procs, filter_procs, pid, lines, fuel, eager)} :
          /\ \A i \in ProcIds : Len(r.procs[i].filters) <= MaxFilters
          /\ procs' = r.procs
          /\ filter_procs' = r.list
          /\ last' = [NoOp EXCEPT !.op = "write", !.pid = pid, !.res = r.res,
                                   !.n = last.n + 1]
    /\ UNCHANGED <<heap, root, fault, econvars, lockvars>>

\* A call of mm_add_memory_range for the process pid.
AddMapping(pid, m, fuel) ==
    /\ ~fault /\ ~last.tie
    /\ last.n < MaxCalls
    /\ \E r \in {mm_add_memory_range(heap, procs, filter_procs, pid, m, fuel)} :
          /\ heap' = r.h
          /\ procs' = r.procs
          /\ fault' = (r.res = "fault")
          /\ last' = [NoOp EXCEPT !.op = "add_mapping", !.pid = pid, !.res = r.res,
                                   !.m = IF r.res = "ok" THEN m ELSE NoMapping,
                                   !.tie = r.tie, !.n = last.n + 1]
    /\ UNCHANGED <<root, filter_procs, econvars, lockvars>>

\* A fork: mm_copy_profile from old_pid to new_pid.
CopyProfile(old_pid, new_pid, fuel) ==
    /\ ~fault /\ ~last.tie
    /\ last.n < MaxCalls
    /\ \E r \in {mm_copy_profile(heap, procs, filter_procs, old_pid, new_pid, fuel)} :
          /\ heap' = r.h
          /\ procs' = r.procs
          /\ filter_procs' = r.list
          /\ fault' = (r.res = "fault")
          /\ last' = [NoOp EXCEPT !.op = "copy_profile", !.pid = new_pid,
                                   !.from = old_pid, !.res = r.res, !.n = last.n + 1]
    /\ UNCHANGED <<root, econvars, lockvars>>

\* The exit of the process pid.
ExitProc(pid) ==
    /\ ~fault /\ ~last.tie
    /\ last.n < MaxCalls
    /\ \E r \in {mm_profile_check_exiting_proc(heap, procs, filter_procs, pid)} :
          /\ heap' = r.h
          /\ procs' = r.procs
          /\ filter_procs' = r.list
          /\ fault' = (r.res = "fault")
          /\ last' = [NoOp EXCEPT !.op = "exit", !.pid = pid, !.res = r.res,
                                   !.n = last.n + 1]
    /\ UNCHANGED <<root, econvars, lockvars>>

NextProc ==
    \/ \E pid \in Pids, lines \in WriteInputs, fuel \in WriteFuels, eager \in {NULL, WILD} :
          Write(pid, lines, fuel, eager)
    \/ \E pid \in Pids, m \in Mappings, fuel \in Fuels : AddMapping(pid, m, fuel)
    \/ \E old_pid \in Pids, new_pid \in Pids, fuel \in Fuels : CopyProfile(old_pid, new_pid, fuel)
    \/ \E pid \in Pids : ExitProc(pid)

SpecProc == InitStore /\ [][NextProc]_vars

\* No range is reachable from two trees, and the trees of the profiles are
\* well-formed.
ProcTreesValid ==
    fault \/ last.tie \/
    \A i \in ProcIds : procs[i].alive =>
        /\ RBValid(heap, procs[i].hp_ranges_root)
        /\ procs[i].eager_ranges_root # WILD => RBValid(heap, procs[i].eager_ranges_root)

\* ------------------------------------------------- properties of the registry

\* The profile a lookup of pid finds.
lookup(pid) == find_filter_proc_by_pid(procs, filter_procs, pid)

\* The ranges of a tree of a profile.
TreeRanges(h, rt) == IF rt = WILD THEN {} ELSE Ranges(h, rt)

PolicyRoot(proc, policy) ==
    IF policy = PolicyHugePage THEN proc.hp_ranges_root ELSE proc.eager_ranges_root

OtherPolicy(policy) ==
    IF policy = PolicyHugePage THEN PolicyEagerPage ELSE PolicyHugePage

\* The page-aligned range of a mapping.
BaselineOf(m) ==
    <<PageAlign(m.mapaddr), PageAlign(U64(m.mapaddr + m.len + PageSize - 1))>>

IsAddress(cmp) == cmp.quant \in {QuantSectionOff, QuantAddr}

\* The comparisons of f on other quantities than the address all hold for m.
OthersHold(f, m) ==
    \A i \in DOMAIN f.comparisons :
        IsAddress(f.comparisons[i]) \/
        mm_does_quantity_match(f.comparisons[i], quantity_value(m, f.comparisons[i].quant))

\* f takes the whole mapping m: its section, no comparison on the address,
\* every comparison holds.
WholeMatch(f, m) ==
    /\ f.section = m.section
    /\ \A i \in DOMAIN f.comparisons : ~IsAddress(f.comparisons[i])
    /\ OthersHold(f, m)

\* C5: when filters of the profile take the whole mapping, a successful
\* add_mapping leaves what it would leave if the list of filters ended with
\* the first of them; and when every filter of the profile takes the whole
\* mapping, the baseline range carries the benefit of the first filter in the
\* tree of its policy and benefit 0 in the other tree.
C5_FirstMatchWins ==
    [][(last'.op = "add_mapping" /\ last'.res = "ok") =>
          LET m == last'.m
              proc == lookup(last'.pid)
              fs == procs[proc].filters
              W == {i \in 1..Len(fs) : WholeMatch(fs[i], m)}
              first == CHOOSE i \in W : \A j \in W : i <= j
              cut == mm_add_memory_range(
                         heap, [procs EXCEPT ![proc].filters = SubSeq(fs, 1, first)],
                         filter_procs, last'.pid, m, Plenty)
              b == BaselineOf(m)
          IN W # {} =>
               /\ heap' = cut.h
               /\ procs'[proc].hp_ranges_root = cut.procs[proc].hp_ranges_root
               /\ procs'[proc].eager_ranges_root = cut.procs[proc].eager_ranges_root
               /\ W = 1..Len(fs) =>
                    /\ <<b[1], b[2], fs[1].benefit>> \in
                           TreeRanges(heap', PolicyRoot(procs'[proc], fs[1].policy))
                    /\ <<b[1], b[2], 0>> \in
                           TreeRanges(heap', PolicyRoot(procs'[proc], OtherPolicy(fs[1].policy)))
       ]_vars

\* A mapping has been added for a profile with two filters of different
\* benefits that both take the whole mapping, and its baseline carries the
\* benefit of the first.
C5_Witness ==
    /\ last.op = "add_mapping" /\ last.res = "ok"
    /\ LET fs == procs[lookup(last.pid)].filters
           b == BaselineOf(last.m)
       IN /\ Len(fs) = 2
          /\ WholeMatch(fs[1], last.m) /\ WholeMatch(fs[2], last.m)
          /\ fs[1].benefit # fs[2].benefit
          /\ fs[1].policy = fs[2].policy
          /\ <<b[1], b[2], fs[1].benefit>> \in
                 TreeRanges(heap, PolicyRoot(procs[lookup(last.pid)], fs[1].policy))

\* The addresses a comparison on the address selects, as [lo, hi).
RegionOf(m, cmp) ==
    LET k == address_key(m, cmp)
    IN IF k.comparator = CompGreaterThan THEN <<k.key, AddrSpace>>
       ELSE IF k.comparator = CompLessThan THEN <<0, k.key>>
       ELSE <<k.key, k.key + PageSize>>

\* The range r lies in the region of every comparison of f on the address.
InRegion(r, m, f) ==
    \A i \in DOMAIN f.comparisons :
        IsAddress(f.comparisons[i]) =>
            /\ RegionOf(m, f.comparisons[i])[1] <= r[1]
            /\ r[2] <= RegionOf(m, f.comparisons[i])[2]

\* C6: after a successful add_mapping, a range of the mapping that carries
\* the benefit of a filter F (the only filter of its policy with that benefit)
\* is there only if F's section is the mapping's, every other comparison of F
\* holds, and the range lies in the region of every address comparison of F.
C6_AllConditionsHold ==
    (last.op = "add_mapping" /\ last.res = "ok") =>
        LET proc == lookup(last.pid)
            fs == procs[proc].filters
            m == last.m
            b == BaselineOf(m)
        IN \A i \in 1..Len(fs) :
             (\A j \in 1..Len(fs) :
                 j # i => fs[j].policy # fs[i].policy \/ fs[j].benefit # fs[i].benefit)
             => \A r \in TreeRanges(heap, PolicyRoot(procs[proc], fs[i].policy)) :
                   (b[1] <= r[1] /\ r[2] <= b[2] /\ r[3] = fs[i].benefit) =>
                       /\ fs[i].section = m.section
                       /\ OthersHold(fs[i], m)
                       /\ InRegion(r, m, fs[i])

\* The profile a lookup of pid finds after the step.
lookup_after(pid) == find_filter_proc_by_pid(procs', filter_procs', pid)

\* The nodes of the two trees of the profile object i.
NodesOf(h, ps, i) ==
    Reach(h, ps[i].hp_ranges_root) \cup
    (IF ps[i].eager_ranges_root = WILD THEN {} ELSE Reach(h, ps[i].eager_ranges_root))

\* C7: after a successful duplicate(old, new) the profile of new is another
\* object than the profile of old, shares no range with it, and has the same
\* filters and the same ranges in both trees; and a filter write, add_mapping
\* or teardown for one pid leaves the profiles of every other pid as they were.
C7_DeepIndependentCopy ==
    [][/\ (last'.op = "copy_profile" /\ last'.res = "ok") =>
            LET o == lookup_after(last'.from)
                n == lookup_after(last'.pid)
            IN /\ n # o
               /\ NodesOf(heap', procs', n) \cap NodesOf(heap', procs', o) = {}
               /\ procs'[n].filters = procs'[o].filters
               /\ TreeRanges(heap', procs'[n].hp_ranges_root) =
                      TreeRanges(heap', procs'[o].hp_ranges_root)
               /\ TreeRanges(heap', procs'[n].eager_ranges_root) =
                      TreeRanges(heap', procs'[o].eager_ranges_root)
       /\ (last'.op \in {"write", "add_mapping", "exit"}) =>
            \A i \in ProcIds :
                (procs[i].alive /\ procs[i].pid # last'.pid) =>
                    /\ procs'[i] = procs[i]
                    /\ \A k \in NodesOf(heap, procs, i) : heap'[k] = heap[k]
      ]_vars

\* The same for a duplicate whose new pid has no profile (and so is not old):
\* the copy is deep, and a later call for one of the two pids leaves the
\* profile of the other alone.
FreshCopyIsDeep ==
    [][/\ (last'.op = "copy_profile" /\ last'.res = "ok" /\ lookup(last'.pid) = NULL) =>
            LET o == lookup_after(last'.from)
                n == lookup_after(last'.pid)
            IN /\ n # o
               /\ NodesOf(heap', procs', n) \cap NodesOf(heap', procs', o) = {}
               /\ procs'[n].filters = procs'[o].filters
               /\ TreeRanges(heap', procs'[n].hp_ranges_root) =
                      TreeRanges(heap', procs'[o].hp_ranges_root)
               /\ TreeRanges(heap', procs'[n].eager_ranges_root) =
                      TreeRanges(heap', procs'[o].eager_ranges_root)
       /\ (last'.op \in {"write", "add_mapping", "exit"}) =>
            \A i \in ProcIds :
                (procs[i].alive /\ procs[i].pid # last'.pid) =>
                    /\ procs'[i] = procs[i]
                    /\ \A k \in NodesOf(heap, procs, i) : heap'[k] = heap[k]
      ]_vars

\* C8: after a teardown of pid has returned, a lookup of pid finds no profile,
\* and the profile it found before, its filters and the ranges of its two
\* trees are freed.
C8_TeardownComplete ==
    [][(last'.op = "exit" /\ last'.res \in {"ok", "noproc"}) =>
          /\ lookup_after(last'.pid) = NULL
          /\ lookup(last'.pid) # NULL =>
                /\ ~procs'[lookup(last'.pid)].alive
                /\ procs'[lookup(last'.pid)].filters = <<>>
                /\ \A k \in NodesOf(heap, procs, lookup(last'.pid)) : ~heap'[k].alive
      ]_vars

\* C9: the list holds at most one profile for a pid.
C9_OneProfilePerPid ==
    \A i, j \in 1..Len(filter_procs) :
        i # j => procs[filter_procs[i]].pid # procs[filter_procs[j]].pid

\* The ranges that are allocated.
Allocated(h) == {k \in NodeIds : h[k].alive}

\* C10: an add_mapping that fails for lack of memory leaves the profiles and
\* the ranges of their trees as they were, and no range it allocated stays
\* allocated.
C10_Rollback ==
    [][(last'.op = "add_mapping" /\ last'.res = "nomem") =>
          /\ procs' = procs
          /\ filter_procs' = filter_procs
          /\ \A i \in ProcIds : \A k \in NodesOf(heap, procs, i) : heap'[k] = heap[k]
          /\ Allocated(heap') = Allocated(heap)
      ]_vars

\* ------------------------------------------------- writes of filter text

\* The well-formed lines a write may start with: none, one filter of the
\* pool, or the filter with two comparisons and another one after it, as
\* mmap_filters_read prints them.
GoodLines ==
    {<<>>} \cup {<<f>> : f \in FilterPool}
    \cup {<<Filter(PolicyEagerPage, SectionMmap, MaxBenefit,
                   <<Comparison(QuantAddr, CompGreaterThan, PageSize),
                     Comparison(QuantAddr, CompLessThan, 1)>>),
             Filter(PolicyHugePage, SectionMmap, 1, <<>>)>>}

\* A line cut off in the middle of its section.
TruncatedLine == STR.huge \o <<COMMA, "m", "m">>

\* A whole filter that no newline ends.
UnterminatedLine == STR.huge \o <<COMMA>> \o STR.mmap \o <<COMMA, "1">>

\* A line with a policy that get_mm_policy does not know.
BadPolicyLine == <<"h", "u", "g", NEWLINE>>

\* A line whose comparison lacks its comparator and value.
BadComparisonLine ==
    STR.huge \o <<COMMA>> \o STR.mmap \o <<COMMA, "1", COMMA>> \o STR.len \o <<NEWLINE>>

\* A well-formed line, put after a line that is not.
LateLine == STR.eager \o <<COMMA>> \o STR.heap \o <<COMMA, "2", NEWLINE>>

\* What may follow the well-formed lines of a write: a truncated line, a
\* malformed line, or a malformed line and a well-formed one after it.
BadRests ==
    {TruncatedLine, UnterminatedLine, BadComparisonLine, BadPolicyLine \o LateLine}

Rests == {<<>>} \cup BadRests

\* A write of the text of the filters good, followed by rest, to the filter
\* file of the process pid.
WriteText(pid, good, rest, fuel, eager) ==
    /\ ~fault /\ ~last.tie
    /\ last.n < MaxCalls
    /\ eager = WILD => find_filter_proc_by_pid(procs, filter_procs, pid) = NULL
    /\ \E r \in {mmap_filters_write_buf(procs, filter_procs, pid,
                                        sprintf_filters(good, 1) \o rest, fuel, eager)} :
          /\ \A i \in ProcIds : Len(r.procs[i].filters) <= MaxFilters
          /\ procs' = r.procs
          /\ filter_procs' = r.list
          /\ last' = [NoOp EXCEPT !.op = "write_text", !.pid = pid, !.res = r.res,
                                   !.bytes = r.bytes, !.good = good, !.rest = rest,
                                   !.was = find_filter_proc_by_pid(procs, filter_procs, pid),
                                   !.had = IF find_filter_proc_by_pid(procs, filter_procs, pid) = NULL
                                           THEN <<>>
                                           ELSE procs[find_filter_proc_by_pid(procs, filter_procs, pid)].filters,
                                   !.n = last.n + 1]
    /\ UNCHANGED <<heap, root, fault, econvars, lockvars>>

\* The process whose filter file is written.
WritePids == {1}

NextWrite ==
    \/ \E pid \in WritePids, good \in GoodLines, rest \in Rests, fuel \in WriteFuels,
          eager \in {NULL, WILD} : WriteText(pid, good, rest, fuel, eager)
    \/ \E pid \in WritePids : ExitProc(pid)

SpecWrite == InitStore /\ [][NextWrite]_vars

\* The filters of the profile a lookup of pid finds; none without a profile.
FiltersOf(pid) == IF lookup(pid) = NULL THEN <<>> ELSE procs[lookup(pid)].filters

\* C14: a filter write of k >= 1 well-formed newline-terminated lines followed
\* by a truncated or malformed line returns, unless vmalloc fails, the byte
\* length of those k lines (their newlines included) and not an error, and
\* appends exactly those k filters to the filters of the process.
C14_PartialWriteRecovery ==
    (/\ last.op = "write_text"
     /\ Len(last.good) >= 1
     /\ last.rest \in BadRests
     /\ last.res # "nomem") =>
        /\ last.res = "ok"
        /\ last.bytes = Len(sprintf_filters(last.good, 1))
        /\ FiltersOf(last.pid) = last.had \o last.good

\* A well-formed line and a line cut off after it were written to a profile
\* that had one filter.
C14_Witness ==
    /\ last.op = "write_text"
    /\ Len(last.good) = 1
    /\ last.rest = TruncatedLine
    /\ last.res = "ok"
    /\ last.bytes > 0
    /\ Len(last.had) = 1
    /\ Len(FiltersOf(last.pid)) = 2

\* C15: a filter write stores, unless vmalloc fails, the filters of the lines
\* before the first malformed line in the order written, after the filters of
\* earlier writes, and nothing of that line or of any line after it; when no
\* line was parsed it returns the format error, and a pid that had no profile
\* has none afterwards.
C15_MalformedRejected ==
    (/\ last.op = "write_text"
     /\ last.rest \in BadRests
     /\ last.res # "nomem") =>
        /\ Len(last.good) >= 1 =>
              /\ last.res = "ok"
              /\ FiltersOf(last.pid) = last.had \o last.good
        /\ Len(last.good) = 0 =>
              /\ last.res = "inval"
              /\ last.was = NULL => lookup(last.pid) = NULL

\* A write of one well-formed line, a malformed line and a well-formed line
\* after it, to a profile that had one filter, has stored the first line
\* alone.
C15_Witness ==
    /\ last.op = "write_text"
    /\ last.rest = BadPolicyLine \o LateLine
    /\ Len(last.good) = 1
    /\ last.res = "ok"
    /\ Len(last.had) = 1
    /\ Len(FiltersOf(last.pid)) = 2

\* ------------------------------------------------- estimator.c: the estimator

\* u64 arithmetic on costs and benefits.
u64(x) == x % CostSpace

\* get_avenrun(loads, offset, 0), for loads[0].
get_avenrun(avenrun, offset) == avenrun + offset

LOAD_INT(x) == x \div FIXED_1

\* The loops of have_free_huge_pages over the zones and the orders, from the
\* i-th free area on: an area is [nr_free, page, zeroed], page telling
\* whether the movable free list has a last page and zeroed whether that
\* page is PageZeroed.  The first area with free pages ends the search.
RECURSIVE free_area_scan(_, _)
free_area_scan(areas, i) ==
    IF i > Len(areas) THEN [is_free |-> FALSE, is_zeroed |-> FALSE]
    ELSE IF areas[i].nr_free > 0
    THEN [is_free |-> TRUE, is_zeroed |-> areas[i].page /\ areas[i].zeroed]
    ELSE free_area_scan(areas, i + 1)

\* The exit of have_free_huge_pages.
free_huge_page_status(s) ==
    IF s.is_zeroed THEN fhps_zeroed
    ELSE IF s.is_free THEN fhps_free
    ELSE fhps_none

have_free_huge_pages(areas) == free_huge_page_status(free_area_scan(areas, 1))

\* The benefit of the range a search found, 0 when it found none.
range_benefit(h, range) == IF range = NULL THEN 0 ELSE h[range].benefit

\* profile_search in the huge page tree of proc, if there is a proc.
hp_range_of(h, ps, proc, address) ==
    IF proc = NULL THEN NULL
    ELSE profile_search(h, ps[proc].hp_ranges_root, address)

compute_hpage_benefit_from_profile(h, ps, list, a) ==
    range_benefit(h, hp_range_of(h, ps, find_filter_proc_by_pid(ps, list, a.pid), a.address))

\* The estimators a module may register: functions of the action's address.
Estimators ==
    <<[address \in 0..(AddrSpace - 1) |-> 1],
      [address \in 0..(AddrSpace - 1) |-> CostSpace - 1]>>

compute_hpage_benefit(g, h, ps, list, a) ==
    IF g.tlb_miss_est_fn # NULL
    THEN Estimators[g.tlb_miss_est_fn][a.address]
    ELSE compute_hpage_benefit_from_profile(h, ps, list, a)

\* The calls below work on a frame e: the globals g, the caller's cost_delta
\* c, and whether the call has run into BUG() or has followed a pointer that
\* was never set.
EstFrame(g, c) == [g |-> g, c |-> c, bug |-> FALSE, fault |-> FALSE]

\* A walk that takes every range in the span, whatever its benefit.
RECURSIVE eager_walk_mut(_, _, _, _, _, _)
eager_walk_mut(h, node, start, end, cost, w) ==
    IF node = NULL THEN w
    ELSE IF start >= h[node].end \/ end <= h[node].start THEN w
    ELSE eager_walk_mut(h, rb_next(h, node), start, end, cost,
             [count |-> w.count + 1,
              benefit |-> IF h[node].benefit > w.benefit THEN h[node].benefit
                          ELSE w.benefit,
              ranges |-> Append(w.ranges, <<h[node].start, h[node].end>>)])

\* The loops of compute_eager_page_benefit from node on: w is [count,
\* benefit, ranges], the ranges with more benefit than cost that overlap
\* [start, end), and the largest of their benefits.
RECURSIVE eager_walk(_, _, _, _, _, _)
eager_walk(h, node, start, end, cost, w) ==
    IF node = NULL THEN w
    ELSE IF start >= h[node].end \/ end <= h[node].start THEN w
    ELSE eager_walk(h, rb_next(h, node), start, end, cost,
             IF h[node].benefit > cost
             THEN [count |-> w.count + 1,
                   benefit |-> IF h[node].benefit > w.benefit THEN h[node].benefit
                               ELSE w.benefit,
                   ranges |-> Append(w.ranges, <<h[node].start, h[node].end>>)]
             ELSE w)

\* The end of compute_eager_page_benefit: the array of ranges, closed by
\* (-1, -1), goes into extra unless there is no range or no memory for it.
eager_fill(e, w, fuel) ==
    IF w.count = 0 THEN [e EXCEPT !.c.benefit = 0]
    ELSE IF fuel = 0 THEN [e EXCEPT !.c.benefit = 0, !.c.extra = 0]
    ELSE [e EXCEPT !.c.benefit = w.benefit, !.c.extra = RANGES_PTR,
                   !.c.ranges = Append(w.ranges, <<-1, -1>>)]

\* compute_eager_page_benefit from the first range on.
eager_from(e, h, first_range, a, fuel) ==
    IF first_range = NULL THEN [e EXCEPT !.c.benefit = 0]
    ELSE eager_fill(e, eager_walk(h, first_range, a.address, U64(a.address + a.len),
                                  e.c.cost, [count |-> 0, benefit |-> 0, ranges |-> <<>>]),
                    fuel)

\* compute_eager_page_benefit for the profile proc.
eager_of(e, h, ps, proc, a, fuel) ==
    IF proc = NULL THEN [e EXCEPT !.c.benefit = 0]
    ELSE IF ps[proc].eager_ranges_root = WILD THEN [e EXCEPT !.fault = TRUE]
    ELSE eager_from(e, h,
                    profile_find_first_range(h, ps[proc].eager_ranges_root, a.address,
                                             CompGreaterThan),
                    a, fuel)

compute_eager_page_benefit(e, h, ps, list, a, fuel) ==
    eager_of(e, h, ps, find_filter_proc_by_pid(ps, list, a.pid), a, fuel)

\* The allocation cost and the prep cost of a promotion.
alloc_cost(fhps) == IF fhps > fhps_none THEN 0 ELSE ALLOC_COST

\* A prep cost that takes every free page for a zeroed one.
prep_cost_mut(fhps) == IF fhps > fhps_none THEN 0 ELSE PREP_COST

prep_cost(fhps) == IF fhps > fhps_free THEN 0 ELSE PREP_COST

\* mm_estimate_huge_page_promote_cost_benefit, fhps what have_free_huge_pages
\* returned.
promote_cost_benefit(e, fhps, benefit) ==
    [e EXCEPT !.c.cost = u64(alloc_cost(fhps) + prep_cost(fhps)),
              !.c.extra = IF fhps = fhps_zeroed THEN 1 ELSE 0,
              !.c.benefit = benefit]

mm_estimate_huge_page_promote_cost_benefit(e, h, ps, list, a, env) ==
    promote_cost_benefit(e, have_free_huge_pages(env.areas),
                         compute_hpage_benefit(e.g, h, ps, list, a))

mm_estimate_huge_page_reclaim_cost(e) ==
    [e EXCEPT !.c.cost = u64(e.c.cost + RECLAIM_COST)]

\* A daemon cost that charges a run of the daemon although the machine has
\* more cpus than load.
mm_estimate_daemon_cost_mut(e, a, env) ==
    IF a.action = MM_ACTION_RUN_PREZEROING
    THEN [e EXCEPT !.c.cost = u64(HUGE_PAGE_ZEROING_COST * a.prezero_n)]
    ELSE IF a.action \in {MM_ACTION_RUN_DEFRAG, MM_ACTION_RUN_PROMOTION}
    THEN [e EXCEPT !.c.cost = DAEMON_COST]
    ELSE [e EXCEPT !.bug = TRUE]

\* A daemon cost that charges the prezeroing daemon like the other two.
daemon_busy_cost_mut(e, a) ==
    IF a.action \in {MM_ACTION_RUN_PREZEROING, MM_ACTION_RUN_DEFRAG, MM_ACTION_RUN_PROMOTION}
    THEN [e EXCEPT !.c.cost = DAEMON_COST]
    ELSE [e EXCEPT !.bug = TRUE]

\* The switch of mm_estimate_daemon_cost.
daemon_busy_cost(e, a) ==
    IF a.action = MM_ACTION_RUN_PREZEROING
    THEN [e EXCEPT !.c.cost = u64(HUGE_PAGE_ZEROING_COST * a.prezero_n)]
    ELSE IF a.action \in {MM_ACTION_RUN_DEFRAG, MM_ACTION_RUN_PROMOTION}
    THEN [e EXCEPT !.c.cost = DAEMON_COST]
    ELSE [e EXCEPT !.bug = TRUE]

mm_estimate_daemon_cost(e, a, env) ==
    IF env.ncpus > LOAD_INT(get_avenrun(env.avenrun, FIXED_1 \div 200))
    THEN [e EXCEPT !.c.cost = 0]
    ELSE daemon_busy_cost(e, a)

mm_estimate_async_prezeroing_benefit(e, a, env) ==
    [e EXCEPT !.c.benefit =
        u64((IF a.prezero_n < env.recent_used THEN a.prezero_n ELSE env.recent_used)
            * ZEROING_PER_PAGE_COST)]

\* nfree of mm_estimate_async_prezeroing_lock_contention_cost.
nfree(g) ==
    u64(u64(g.contention_ms * g.freq_mhz) * KHZ_PER_MHZ) \div CRITICAL_SECTION_COST

mm_estimate_async_prezeroing_lock_contention_cost(e, a) ==
    [e EXCEPT !.c.cost =
        u64(e.c.cost
            + u64((IF a.prezero_n > nfree(e.g) THEN a.prezero_n - nfree(e.g) ELSE 0)
                  * CRITICAL_SECTION_COST))]

\* mm_estimate_eager_page_cost_benefit, after the cost is set.
mm_estimate_eager_page_cost_benefit(e, h, ps, list, a, env) ==
    compute_eager_page_benefit([e EXCEPT !.c.cost = u64(e.g.freq_mhz * EAGER_FAULT_US)],
                               h, ps, list, a, env.fuel)

\* cost = 0, benefit = 0
no_cost_benefit(e) == [e EXCEPT !.c.cost = 0, !.c.benefit = 0]

\* A daemon estimate that leaves the benefit as the caller handed it in.
no_benefit_mut(e) == e

\* benefit = 0 after the daemon cost
no_benefit(e) == [e EXCEPT !.c.benefit = 0]

\* if (cost->cost < cost->benefit) mm_econ_num_async_compaction += 1
count_async_compaction(e) ==
    IF e.c.cost < e.c.benefit
    THEN [e EXCEPT !.g.num_async_compaction = e.g.num_async_compaction + 1]
    ELSE e

\* if (cost->cost < cost->benefit) mm_econ_num_async_prezeroing += 1
count_async_prezeroing(e) ==
    IF e.c.cost < e.c.benefit
    THEN [e EXCEPT !.g.num_async_prezeroing = e.g.num_async_prezeroing + 1]
    ELSE e

\* The switch of mm_estimate_changes; its default case leaves the cost_delta
\* as it came in.
estimate_switch(e, h, ps, list, a, env) ==
    IF a.action = MM_ACTION_NONE THEN no_cost_benefit(e)
    ELSE IF a.action = MM_ACTION_PROMOTE_HUGE
    THEN mm_estimate_huge_page_promote_cost_benefit(e, h, ps, list, a, env)
    ELSE IF a.action = MM_ACTION_DEMOTE_HUGE THEN no_cost_benefit(e)
    ELSE IF a.action = MM_ACTION_RUN_DEFRAG
    THEN count_async_compaction(no_benefit(mm_estimate_daemon_cost(e, a, env)))
    ELSE IF a.action = MM_ACTION_RUN_PROMOTION
    THEN no_benefit(mm_estimate_daemon_cost(e, a, env))
    ELSE IF a.action = MM_ACTION_RUN_PREZEROING
    THEN count_async_prezeroing(
             mm_estimate_async_prezeroing_benefit(
                 mm_estimate_async_prezeroing_lock_contention_cost(
                     mm_estimate_daemon_cost(e, a, env), a),
                 a, env))
    ELSE IF a.action = MM_ACTION_ALLOC_RECLAIM
    THEN mm_estimate_huge_page_reclaim_cost(
             mm_estimate_huge_page_promote_cost_benefit(e, h, ps, list, a, env))
    ELSE IF a.action = MM_ACTION_EAGER_PAGING
    THEN mm_estimate_eager_page_cost_benefit(e, h, ps, list, a, env)
    ELSE e

\* mm_econ_num_estimates += 1
count_estimate(e) == [e EXCEPT !.g.num_estimates = e.g.num_estimates + 1]

mm_estimate_changes(e, h, ps, list, a, env) ==
    count_estimate(estimate_switch(e, h, ps, list, a, env))

mm_econ_is_on(g) == g.mode > 0

\* mm_decide that takes the action when the benefit equals the cost.
decide_by_mode_mut(g, cost) ==
    IF g.mode = 0 THEN [g |-> g, ret |-> TRUE, bug |-> FALSE]
    ELSE IF g.mode = 1
    THEN [g |-> IF cost.benefit >= cost.cost
                THEN [g EXCEPT !.num_decisions_yes = g.num_decisions_yes + 1]
                ELSE g,
          ret |-> cost.benefit >= cost.cost, bug |-> FALSE]
    ELSE [g |-> g, ret |-> FALSE, bug |-> TRUE]

\* mm_decide that asks for a benefit although the estimator is off.
decide_off_mut(g, cost) ==
    IF g.mode = 0 THEN [g |-> g, ret |-> cost.benefit > cost.cost, bug |-> FALSE]
    ELSE IF g.mode = 1
    THEN [g |-> IF cost.benefit > cost.cost
                THEN [g EXCEPT !.num_decisions_yes = g.num_decisions_yes + 1]
                ELSE g,
          ret |-> cost.benefit > cost.cost, bug |-> FALSE]
    ELSE [g |-> g, ret |-> FALSE, bug |-> TRUE]

\* mm_decide after mm_econ_num_decisions += 1: [g, ret, bug].
decide_by_mode(g, cost) ==
    IF g.mode = 0 THEN [g |-> g, ret |-> TRUE, bug |-> FALSE]
    ELSE IF g.mode = 1
    THEN [g |-> IF cost.benefit > cost.cost
                THEN [g EXCEPT !.num_decisions_yes = g.num_decisions_yes + 1]
                ELSE g,
          ret |-> cost.benefit > cost.cost, bug |-> FALSE]
    ELSE [g |-> g, ret |-> FALSE, bug |-> TRUE]

mm_decide(g, cost) ==
    decide_by_mode([g EXCEPT !.num_decisions = g.num_decisions + 1], cost)

\* enabled_store that keeps whatever integer was written.
enabled_store_end_mut(g, r, count) ==
    IF r.ret # 0 THEN [g |-> [g EXCEPT !.mode = 0], ret |-> r.ret]
    ELSE [g |-> [g EXCEPT !.mode = r.val], ret |-> count]

\* enabled_store, r what kstrtoint returned: [g, ret].
enabled_store_end(g, r, count) ==
    IF r.ret # 0 THEN [g |-> [g EXCEPT !.mode = 0], ret |-> r.ret]
    ELSE IF r.val >= 0 /\ r.val <= 1 THEN [g |-> [g EXCEPT !.mode = r.val], ret |-> count]
    ELSE [g |-> [g EXCEPT !.mode = 0], ret |-> -EINVAL]

enabled_store(g, buf) == enabled_store_end(g, kstrtoint(buf), Len(buf))

\* contention_cycles_store, r what kstrtou64 returned: [g, ret].
contention_cycles_store_end(g, r, count) ==
    IF r.ret # 0 THEN [g |-> g, ret |-> r.ret]
    ELSE [g |-> [g EXCEPT !.contention_ms = r.val], ret |-> count]

contention_cycles_store(g, buf) ==
    contention_cycles_store_end(g, kstrtoull(buf, ULLONG_MAX), Len(buf))

\* freq_mhz_store, r what kstrtou64 returned: [g, ret].
freq_mhz_store_end(g, r, count) ==
    IF r.ret # 0 THEN [g |-> g, ret |-> r.ret]
    ELSE [g |-> [g EXCEPT !.freq_mhz = r.val], ret |-> count]

freq_mhz_store(g, buf) == freq_mhz_store_end(g, kstrtoull(buf, ULLONG_MAX), Len(buf))

\* register_mm_econ_tlb_miss_estimator(f), f not NULL.
register_mm_econ_tlb_miss_estimator(g, f) == [g EXCEPT !.tlb_miss_est_fn = f]

\* ------------------------------------------------- the estimator's callers

\* The texts written to the sysfs file enabled: 0, 1 (with and without the
\* newline of echo), integers outside 0..1, and texts that are no integer.
ModeOffTexts == {<<"0">>}

ModeOnTexts == {<<"1">>, <<"1", NEWLINE>>}

ModeBadTexts == {<<"2">>, <<"-", "1">>, <<"o", "n">>, <<>>}

\* A value of a tunable large enough for the product of two to pass CostSpace.
BigTunable == CostSpace \div 8

\* The texts written to contention_cyles and to freq_mhz.
ContentionTexts == {<<"0", "x">> \o sprintf_llx(BigTunable), <<"m", "s">>}

FreqTexts == {<<"0">>, <<"0", "x">> \o sprintf_llx(BigTunable)}

Area(nr_free, page, zeroed) == [nr_free |-> nr_free, page |-> page, zeroed |-> zeroed]

\* The free areas of order 9 and up as have_free_huge_pages may find them:
\* none free; a free one whose last movable page is not zeroed; one whose
\* last movable page is zeroed; one with free pages but none movable, before
\* one with a zeroed page.
FreeAreas ==
    {<<Area(0, FALSE, FALSE)>>,
     <<Area(0, FALSE, FALSE), Area(1, TRUE, FALSE)>>,
     <<Area(1, TRUE, TRUE)>>,
     <<Area(1, FALSE, FALSE), Area(1, TRUE, TRUE)>>}

\* The online cpus and avenrun[0]: two cpus with a load of 1, of 2, and of
\* just under 2.
Loads == {<<2, FIXED_1>>, <<2, 2 * FIXED_1>>, <<2, 2 * FIXED_1 - 1>>}

\* The machine as a call of mm_estimate_changes finds it; fuel is the number
\* of vmalloc calls that succeed, recent_used what
\* mm_estimated_prezeroed_used returns.
Env(areas, load, recent_used, fuel) ==
    [areas |-> areas, ncpus |-> load[1], avenrun |-> load[2],
     recent_used |-> recent_used, fuel |-> fuel]

NoEnv == Env(<<>>, <<1, 0>>, 0, Plenty)

Action(action, prezero_n) ==
    [NoAction EXCEPT !.action = action, !.prezero_n = prezero_n, !.len = PageSize, !.pid = 1]

\* The cost_delta a caller hands in: zeroed, or what its memory held.
CostsIn == {CostDelta(0, 0, 0), CostDelta(0, MaxBenefit, 0), CostDelta(CostSpace - 1, 0, 0)}

PrezeroCounts == {0, 1, MaxPrezero, 4 * MaxPrezero}

\* The calls of mm_estimate_changes: [a, in, env].
EstimateInputs ==
    {[a |-> Action(k, 0), in |-> c, env |-> NoEnv] :
        k \in {MM_ACTION_NONE, MM_ACTION_DEMOTE_HUGE, MM_ACTION_UNKNOWN,
               MM_ACTION_EAGER_PAGING},
        c \in CostsIn}
    \cup
    {[a |-> Action(k, 0), in |-> CostDelta(0, MaxBenefit, 0),
      env |-> Env(areas, <<1, 0>>, 0, Plenty)] :
        k \in {MM_ACTION_PROMOTE_HUGE, MM_ACTION_ALLOC_RECLAIM}, areas \in FreeAreas}
    \cup
    {[a |-> Action(k, 0), in |-> CostDelta(0, MaxBenefit, 0),
      env |-> Env(<<>>, load, 0, Plenty)] :
        k \in {MM_ACTION_RUN_DEFRAG, MM_ACTION_RUN_PROMOTION}, load \in Loads}
    \cup
    {[a |-> Action(MM_ACTION_RUN_PREZEROING, n), in |-> CostDelta(0, MaxBenefit, 0),
      env |-> Env(<<>>, load, recent_used, Plenty)] :
        n \in PrezeroCounts, load \in Loads, recent_used \in {0, MaxPrezero}}

\* The cost_deltas handed to mm_decide that come from no estimate.
DecideCosts == CostsIn \cup {CostDelta(1, 1, 0)}

\* A write of buf to the sysfs file enabled.
EnabledStore(buf) ==
    /\ \E r \in {enabled_store(econ, buf)} :
          /\ econ' = r.g
          /\ est' = [NoEst EXCEPT !.op = "enabled_store", !.buf = buf, !.ret = r.ret,
                                  !.mode = econ.mode]
    /\ UNCHANGED <<heap, root, last, procs, filter_procs, fault, lockvars>>

\* A write of buf to the sysfs file contention_cyles.
ContentionStore(buf) ==
    /\ \E r \in {contention_cycles_store(econ, buf)} :
          /\ econ' = r.g
          /\ est' = [NoEst EXCEPT !.op = "contention_cycles_store", !.buf = buf,
                                  !.ret = r.ret, !.mode = econ.mode]
    /\ UNCHANGED <<heap, root, last, procs, filter_procs, fault, lockvars>>

\* A write of buf to the sysfs file freq_mhz.
FreqStore(buf) ==
    /\ \E r \in {freq_mhz_store(econ, buf)} :
          /\ econ' = r.g
          /\ est' = [NoEst EXCEPT !.op = "freq_mhz_store", !.buf = buf, !.ret = r.ret,
                                  !.mode = econ.mode]
    /\ UNCHANGED <<heap, root, last, procs, filter_procs, fault, lockvars>>

\* A module registers the estimator f.
Register(f) ==
    /\ econ' = register_mm_econ_tlb_miss_estimator(econ, f)
    /\ est' = [NoEst EXCEPT !.op = "register", !.mode = econ.mode]
    /\ UNCHANGED <<heap, root, last, procs, filter_procs, fault, lockvars>>

\* A call of mm_estimate_changes.
Estimate(x) ==
    /\ ~fault
    /\ econ.num_estimates + econ.num_decisions < MaxEstimates
    /\ \E e \in {mm_estimate_changes(EstFrame(econ, x.in), heap, procs, filter_procs,
                                     x.a, x.env)} :
          /\ econ' = e.g
          /\ fault' = e.fault
          /\ est' = [NoEst EXCEPT !.op = "estimate", !.action = x.a, !.in = x.in,
                                  !.out = e.c, !.areas = x.env.areas,
                                  !.ncpus = x.env.ncpus, !.avenrun = x.env.avenrun,
                                  !.fuel = x.env.fuel, !.bug = e.bug, !.mode = econ.mode]
    /\ UNCHANGED <<heap, root, last, procs, filter_procs, lockvars>>

\* A call of mm_decide with a cost_delta of the caller's own.
Decide(cost) ==
    /\ econ.num_estimates + econ.num_decisions < MaxEstimates
    /\ \E r \in {mm_decide(econ, cost)} :
          /\ econ' = r.g
          /\ est' = [NoEst EXCEPT !.op = "decide", !.in = cost, !.decision = r.ret,
                                  !.bug = r.bug, !.mode = econ.mode]
    /\ UNCHANGED <<heap, root, last, procs, filter_procs, fault, lockvars>>

\* A call of mm_decide with the cost_delta the last mm_estimate_changes
\* filled in; given is the cost_delta that call was handed.
DecideEstimate ==
    /\ est.op = "estimate"
    /\ econ.num_estimates + econ.num_decisions < MaxEstimates
    /\ \E r \in {mm_decide(econ, est.out)} :
          /\ econ' = r.g
          /\ est' = [NoEst EXCEPT !.op = "decide", !.action = est.action,
                                  !.given = est.in, !.in = est.out, !.decision = r.ret,
                                  !.bug = r.bug, !.mode = econ.mode]
    /\ UNCHANGED <<heap, root, last, procs, filter_procs, fault, lockvars>>

NextEcon ==
    \/ \E buf \in ModeOffTexts \cup ModeOnTexts \cup ModeBadTexts : EnabledStore(buf)
    \/ \E buf \in ContentionTexts : ContentionStore(buf)
    \/ \E buf \in FreqTexts : FreqStore(buf)
    \/ \E f \in DOMAIN Estimators : Register(f)
    \/ \E x \in EstimateInputs : Estimate(x)
    \/ \E cost \in DecideCosts : Decide(cost)
    \/ DecideEstimate

SpecEcon == InitStore /\ [][NextEcon]_vars

\* -------------------------------------------- properties of the estimator

\* C11: when mm_econ_mode is 0, mm_decide returns true for every cost_delta,
\* whatever its cost and benefit, the largest cost with benefit 0 included.
C11_ModeOffDeterminism ==
    (est.op = "decide" /\ est.mode = 0) => (est.decision /\ ~est.bug)

C11_Witness ==
    /\ est.op = "decide"
    /\ est.mode = 0
    /\ est.in.cost = CostSpace - 1
    /\ est.in.benefit = 0
    /\ est.decision

\* C12: when mm_econ_mode is 1, a call of mm_decide returns true exactly when
\* the benefit is strictly larger than the cost, and it adds one to
\* mm_econ_num_decisions_yes exactly when it returns true.
C12_ModeOnThreshold ==
    [][(/\ est'.op = "decide"
        /\ econ'.num_decisions = econ.num_decisions + 1
        /\ econ.mode = 1) =>
           /\ est'.decision <=> est'.in.benefit > est'.in.cost
           /\ econ'.num_decisions_yes =
                  econ.num_decisions_yes + (IF est'.decision THEN 1 ELSE 0)]_vars

C12_Witness ==
    /\ est.op = "decide"
    /\ est.mode = 1
    /\ est.in.cost = 1
    /\ est.in.benefit = 1
    /\ ~est.decision
    /\ econ.num_decisions = 2
    /\ econ.num_decisions_yes = 1

\* C13: mm_econ_mode is 0 or 1 in every state: a write of 0 or of 1 to
\* enabled sets it and returns the length written, any other write sets it
\* to 0 and returns an error, and no mm_decide runs into BUG().
C13_ModeIsOffOrOn ==
    /\ econ.mode \in {0, 1}
    /\ est.op = "enabled_store" =>
           /\ est.buf \in ModeOffTexts => (econ.mode = 0 /\ est.ret = Len(est.buf))
           /\ est.buf \in ModeOnTexts => (econ.mode = 1 /\ est.ret = Len(est.buf))
           /\ est.buf \in ModeBadTexts => (econ.mode = 0 /\ est.ret < 0)
    /\ est.op = "decide" => ~est.bug

C13_Witness ==
    /\ est.op = "enabled_store"
    /\ est.buf = <<"2">>
    /\ est.mode = 1
    /\ econ.mode = 0
    /\ est.ret = -EINVAL

\* C16: mm_estimate_changes called with an action outside the known ones
\* returns cost 0 and benefit 0 whatever the cost_delta held before, and with
\* mm_econ_mode 1 the mm_decide that follows returns false.
C16_UnknownActionZero ==
    /\ (est.op = "estimate" /\ est.action.action = MM_ACTION_UNKNOWN) =>
           (est.out.cost = 0 /\ est.out.benefit = 0)
    /\ (est.op = "decide" /\ est.action.action = MM_ACTION_UNKNOWN /\ est.mode = 1) =>
           ~est.decision

\* The integer part of the 1-minute load average, as get_avenrun and
\* LOAD_INT give it.
IntegerLoad(avenrun) == (avenrun + FIXED_1 \div 200) \div FIXED_1

\* The charge for n pages when free of them fit the contention window.
LockCharge(n, free) == IF n > free THEN (n - free) * CRITICAL_SECTION_COST ELSE 0

DaemonActions == {MM_ACTION_RUN_DEFRAG, MM_ACTION_RUN_PROMOTION, MM_ACTION_RUN_PREZEROING}

\* C17: when there are more online cpus than the integer load average, the
\* daemon cost is 0: the cost of RUN_DEFRAG and of RUN_PROMOTION is 0 and the
\* cost of RUN_PREZEROING is the lock contention charge alone.
C17_DaemonCostIdle ==
    (/\ est.op = "estimate"
     /\ est.action.action \in DaemonActions
     /\ est.ncpus > IntegerLoad(est.avenrun)) =>
        est.out.cost =
            IF est.action.action = MM_ACTION_RUN_PREZEROING
            THEN u64(LockCharge(est.action.prezero_n, nfree(econ)))
            ELSE 0

C17_Witness ==
    /\ est.op = "estimate"
    /\ est.action.action = MM_ACTION_RUN_PREZEROING
    /\ est.action.prezero_n = 4 * MaxPrezero
    /\ est.ncpus > IntegerLoad(est.avenrun)
    /\ est.out.cost > 0
    /\ est.out.cost = (4 * MaxPrezero - nfree(EconInit)) * CRITICAL_SECTION_COST

\* C18, as the code has it: when the online cpus do not exceed the integer
\* load average, the cost of RUN_DEFRAG and of RUN_PROMOTION is the fixed
\* daemon cost, and the cost of RUN_PREZEROING is the zeroing cost of one
\* huge page times prezero_n plus the lock contention charge, in 64 bits.
C18_DaemonCostBusy ==
    (/\ est.op = "estimate"
     /\ est.action.action \in DaemonActions
     /\ est.ncpus <= IntegerLoad(est.avenrun)) =>
        est.out.cost =
            IF est.action.action = MM_ACTION_RUN_PREZEROING
            THEN u64(HUGE_PAGE_ZEROING_COST * est.action.prezero_n
                     + LockCharge(est.action.prezero_n, nfree(econ)))
            ELSE DAEMON_COST

C18_Witness ==
    /\ est.op = "estimate"
    /\ est.action.action = MM_ACTION_RUN_PREZEROING
    /\ est.action.prezero_n = MaxPrezero
    /\ est.ncpus <= IntegerLoad(est.avenrun)
    /\ est.out.cost = HUGE_PAGE_ZEROING_COST * MaxPrezero

\* C18 as stated: when the online cpus do not exceed the load average,
\* RUN_DEFRAG and RUN_PROMOTION cost the fixed daemon cost and RUN_PREZEROING
\* costs that same daemon cost plus the lock contention charge.
C18_DaemonCostBusyFixed ==
    (/\ est.op = "estimate"
     /\ est.action.action \in DaemonActions
     /\ est.ncpus <= IntegerLoad(est.avenrun)) =>
        est.out.cost =
            IF est.action.action = MM_ACTION_RUN_PREZEROING
            THEN u64(DAEMON_COST + LockCharge(est.action.prezero_n, nfree(econ)))
            ELSE DAEMON_COST

\* The pages that fit the contention window, computed without wrap-around.
NfreeExact(g) == (g.contention_ms * g.freq_mhz * KHZ_PER_MHZ) \div CRITICAL_SECTION_COST

\* C19: for every prezero_n and every setting of the two tunables, the charge
\* RUN_PREZEROING adds is max(0, prezero_n - nfree) times the cycles of the
\* critical section, nfree computed without wrap-around; stated where the
\* daemon cost is 0, so that the cost is the charge.
C19_LockContentionCharge ==
    (/\ est.op = "estimate"
     /\ est.action.action = MM_ACTION_RUN_PREZEROING
     /\ est.ncpus > IntegerLoad(est.avenrun)) =>
        est.out.cost = LockCharge(est.action.prezero_n, NfreeExact(econ))

\* What PROMOTE_HUGE costs for each answer of have_free_huge_pages.
PromoteCost(fhps) ==
    IF fhps = fhps_zeroed THEN 0
    ELSE IF fhps = fhps_free THEN PREP_COST
    ELSE ALLOC_COST + PREP_COST

\* C20: the cost of PROMOTE_HUGE is the allocation cost, 0 unless no huge
\* page is free, plus the prep cost, 0 only when a zeroed one is free: it is
\* 0 exactly for a zeroed page and grows from zeroed to free to none;
\* ALLOC_RECLAIM has the same benefit and that cost plus the reclaim cost.
C20_PromoteCost ==
    /\ PromoteCost(fhps_zeroed) < PromoteCost(fhps_free)
    /\ PromoteCost(fhps_free) < PromoteCost(fhps_none)
    /\ (est.op = "estimate" /\ est.action.action = MM_ACTION_PROMOTE_HUGE) =>
           /\ est.out.cost = PromoteCost(have_free_huge_pages(est.areas))
           /\ est.out.cost = 0 <=> have_free_huge_pages(est.areas) = fhps_zeroed
           /\ est.out.benefit =
                  compute_hpage_benefit(econ, heap, procs, filter_procs, est.action)
    /\ (est.op = "estimate" /\ est.action.action = MM_ACTION_ALLOC_RECLAIM) =>
           /\ est.out.cost = PromoteCost(have_free_huge_pages(est.areas)) + RECLAIM_COST
           /\ est.out.benefit =
                  compute_hpage_benefit(econ, heap, procs, filter_procs, est.action)

C20_Witness ==
    /\ est.op = "estimate"
    /\ est.action.action = MM_ACTION_ALLOC_RECLAIM
    /\ have_free_huge_pages(est.areas) = fhps_free
    /\ Len(est.areas) = 2
    /\ est.out.cost = PREP_COST + RECLAIM_COST
    /\ est.out.benefit = CostSpace - 1

\* -------------------------------------------------- properties of a lookup

\* No two ranges of the store overlap and an iteration meets them by
\* strictly growing start.
NonOverlappingStore ==
    /\ ~last.tie
    /\ \A i, j \in 1..Len(StoredWalk) :
           i < j => /\ StoredWalk[i][1] < StoredWalk[j][1]
                    /\ ~SpecOverlap(StoredWalk[i], StoredWalk[j])

\* The range r has an address x with x comp addr.
Satisfies(r, addr, comp) ==
    IF comp = CompLessThan THEN r[1] < addr
    ELSE IF comp = CompGreaterThan THEN r[2] > addr
    ELSE r[1] <= addr /\ addr < r[2]

\* What profile_find_first_range returns on the store: <<>> for none.
FoundFirst(addr, comp) ==
    IF profile_find_first_range(heap, root, addr, comp) = NULL THEN <<>>
    ELSE RangeOf(heap, profile_find_first_range(heap, root, addr, comp))

\* f is the range the comparator asks for among the ranges S that satisfy
\* the condition: none when S is empty, else the one with the largest start
\* (Lt), with the smallest end (Gt), the one that holds addr (Eq).
IsFirstOf(f, S, comp) ==
    IF S = {} THEN f = <<>>
    ELSE /\ f \in S
         /\ comp = CompLessThan => \A r \in S : r[1] <= f[1]
         /\ comp = CompGreaterThan => \A r \in S : f[2] <= r[2]
         /\ comp = CompEquals => S = {f}

\* C28: on a store without overlap, profile_find_first_range returns for Lt
\* the range with the largest start among those with start < addr, for Gt
\* the range with the smallest end among those with end > addr, for Eq the
\* one range with start <= addr < end, and none exactly when no stored range
\* satisfies the condition, for every address.
C28_FindFirst ==
    NonOverlappingStore =>
        \A addr \in 0..(MaxAddr + 1), comp \in Comparators :
            IsFirstOf(FoundFirst(addr, comp),
                      {r \in Ranges(heap, root) : Satisfies(r, addr, comp)}, comp)

\* A store of three ranges in which the first loop of the lookup stops at the
\* root and the second loop has to walk on: the range asked for, for Lt and
\* an address behind all of them, is the last one.
C28_Witness ==
    /\ NonOverlappingStore
    /\ Len(StoredWalk) = 3
    /\ FoundFirst(MaxAddr + 1, CompLessThan) = StoredWalk[3]
    /\ FoundFirst(0, CompGreaterThan) = StoredWalk[1]
    /\ RangeOf(heap, root) = StoredWalk[2]
    /\ FoundFirst(StoredWalk[2][1], CompEquals) = StoredWalk[2]

\* ------------------------------------------- properties of mm_add_memory_range

\* C25: mm_add_memory_range for a pid without a profile changes nothing: the
\* list of profiles, the filters and the two trees of every profile and
\* every range are as they were, and the pid still has no profile.
C25_NoProfileNoOp ==
    [][(last'.op = "add_mapping" /\ last'.res = "noproc") =>
          /\ heap' = heap
          /\ procs' = procs
          /\ filter_procs' = filter_procs
          /\ lookup_after(last'.pid) = NULL]_vars

\* A mapping was reported for a pid without a profile while another pid has
\* a profile with ranges in its tree.
C25_Witness ==
    /\ last.op = "add_mapping" /\ last.res = "noproc"
    /\ lookup(last.pid) = NULL
    /\ \E i \in ProcIds : procs[i].alive /\ procs[i].hp_ranges_root # NULL

\* Filters that split a mapping: the addresses above one page, below one
\* page, the page at one page; a filter that takes the whole mapping; and
\* one of the other policy.
SplitFilters ==
    {Filter(PolicyHugePage, SectionMmap, MaxBenefit,
            <<Comparison(QuantAddr, CompGreaterThan, PageSize)>>),
     Filter(PolicyHugePage, SectionMmap, 1,
            <<Comparison(QuantAddr, CompLessThan, PageSize)>>),
     Filter(PolicyHugePage, SectionMmap, 1,
            <<Comparison(QuantAddr, CompEquals, PageSize)>>),
     Filter(PolicyHugePage, SectionMmap, 1, <<>>),
     Filter(PolicyEagerPage, SectionMmap, MaxBenefit,
            <<Comparison(QuantAddr, CompLessThan, PageSize)>>)}

\* Mappings of the mmap section: two pages, all the pages that end below the
\* top of the address space, and one that starts and ends inside a page.
SplitMappings ==
    {Mapping(SectionMmap, 0, 0, 2 * PageSize),
     Mapping(SectionMmap, 0, 0, ((AddrSpace - 1) \div PageSize) * PageSize),
     Mapping(SectionMmap, 1, 0, PageSize)}

\* One process writes filters one at a time and maps memory.
NextMap ==
    \/ \E f \in SplitFilters : Write(1, <<f>>, Plenty, NULL)
    \/ \E m \in SplitMappings : AddMapping(1, m, Plenty)

SpecMap == InitStore /\ [][NextMap]_vars

\* The working trees of a call of mm_add_memory_range for the mapping m after
\* the first k of the filters fs, from the state the call starts in.
WorkAfter(m, fs, k) == filter_loop(working_trees(heap, m, Plenty), m, SubSeq(fs, 1, k))

\* The ranges of the working tree of a policy.
WorkRanges(e, policy) == Ranges(e.h, subranges(e, policy))

Policies == {PolicyHugePage, PolicyEagerPage}

\* The ranges S lie in [b[1], b[2]), no two of them overlap, and every
\* address of it lies in one of them.
Tiles(S, b) ==
    /\ \A r \in S : b[1] <= r[1] /\ r[1] <= r[2] /\ r[2] <= b[2]
    /\ \A r, q \in S : r # q => ~SpecOverlap(r, q)
    /\ \A a \in b[1]..(b[2] - 1) : \E r \in S : r[1] <= a /\ a < r[2]

Claimed(e, policy) == {r \in WorkRanges(e, policy) : r[3] # 0}

\* C30: a range of a working tree that a filter has given a benefit other
\* than 0 is in that tree, with its bounds and its benefit, after every
\* later filter of the same call, and is what the call commits.
C30_ClaimedFinal ==
    [][(last'.op = "add_mapping" /\ last'.res = "ok") =>
          \A policy \in Policies :
              \A k \in 0..Len(procs[lookup(last'.pid)].filters) :
                  /\ k < Len(procs[lookup(last'.pid)].filters) =>
                         Claimed(WorkAfter(last'.m, procs[lookup(last'.pid)].filters, k), policy)
                             \subseteq
                         WorkRanges(WorkAfter(last'.m, procs[lookup(last'.pid)].filters, k + 1),
                                    policy)
                  /\ Claimed(WorkAfter(last'.m, procs[lookup(last'.pid)].filters, k), policy)
                         \subseteq
                     TreeRanges(heap', PolicyRoot(procs'[lookup(last'.pid)], policy))
      ]_vars

\* A filter on the address claimed the upper page of a mapping and a later
\* filter of the same policy that takes the whole mapping filled the rest
\* with another benefit.
C30_Witness ==
    /\ last.op = "add_mapping" /\ last.res = "ok"
    /\ last.m = Mapping(SectionMmap, 0, 0, 2 * PageSize)
    /\ Len(procs[lookup(last.pid)].filters) = 2
    /\ procs[lookup(last.pid)].filters[1].comparisons # <<>>
    /\ procs[lookup(last.pid)].filters[2].comparisons = <<>>
    /\ TreeRanges(heap, procs[lookup(last.pid)].hp_ranges_root) =
           {<<0, PageSize, 1>>, <<PageSize, 2 * PageSize, MaxBenefit>>}

\* ------------------------------------------------ estimates from a profile

\* The filters of the process that asks for estimates: on the eager policy,
\* the addresses above one page and the whole mapping; the same on the huge
\* page policy.
BenefitFilters ==
    {Filter(PolicyEagerPage, SectionMmap, MaxBenefit,
            <<Comparison(QuantAddr, CompGreaterThan, PageSize)>>),
     Filter(PolicyEagerPage, SectionMmap, 1, <<>>),
     Filter(PolicyHugePage, SectionMmap, MaxBenefit,
            <<Comparison(QuantAddr, CompGreaterThan, PageSize)>>),
     Filter(PolicyHugePage, SectionMmap, 1, <<>>)}

\* Its mappings: the first two pages, and the second of them once more.
BenefitMappings ==
    {Mapping(SectionMmap, 0, 0, 2 * PageSize),
     Mapping(SectionMmap, PageSize, 0, 1)}

\* An action of the process pid at an address.
ActionAt(action, pid, address, len) ==
    [NoAction EXCEPT !.action = action, !.pid = pid, !.address = address, !.len = len]

\* The part of memory an eager paging action is about, as <<address, len>>.
FaultSpans ==
    {<<0, PageSize>>, <<0, 2 * PageSize>>, <<1, 1>>, <<PageSize, PageSize>>,
     <<PageSize + 1, PageSize - 1>>}

\* The estimates asked for: a promotion at addresses of each page and an
\* eager paging of each span by the process with the profile, with a
\* cost_delta that is zeroed or holds an extra from before, with and without
\* memory for the array of ranges; and the same by a process without one.
BenefitInputs ==
    {[a |-> ActionAt(MM_ACTION_PROMOTE_HUGE, 1, address, PageSize),
      in |-> CostDelta(0, 0, 0), env |-> NoEnv] :
        address \in {0, PageSize - 1, PageSize, 2 * PageSize}}
    \cup
    {[a |-> ActionAt(MM_ACTION_EAGER_PAGING, 1, span[1], span[2]),
      in |-> CostDelta(0, 0, x[1]), env |-> Env(<<>>, <<1, 0>>, 0, x[2])] :
        span \in FaultSpans, x \in {<<0, Plenty>>, <<1, Plenty>>, <<0, 0>>}}
    \cup
    {[a |-> ActionAt(action, 2, 0, PageSize), in |-> CostDelta(0, 0, 1), env |-> NoEnv] :
        action \in {MM_ACTION_PROMOTE_HUGE, MM_ACTION_EAGER_PAGING}}

\* One process writes filters, maps memory and asks for estimates, while the
\* frequency is set to 1 MHz and an estimator is registered.
NextBenefit ==
    \/ \E f \in BenefitFilters, eager \in {NULL, WILD} : Write(1, <<f>>, Plenty, eager)
    \/ \E m \in BenefitMappings : AddMapping(1, m, Plenty)
    \/ FreqStore(<<"1">>)
    \/ Register(1)
    \/ \E x \in BenefitInputs : Estimate(x)

SpecBenefit == InitStore /\ [][NextBenefit]_vars

\* The ranges of the huge page tree of the profile of pid that hold address.
HugeRangesAt(pid, address) ==
    IF lookup(pid) = NULL THEN {}
    ELSE {r \in TreeRanges(heap, procs[lookup(pid)].hp_ranges_root) :
              r[1] <= address /\ address < r[2]}

\* C21: the benefit of PROMOTE_HUGE is what the registered estimator gives
\* if there is one; else it is the benefit of the one range of the huge page
\* tree of the process that holds the address, and 0 when the process has no
\* profile or no range holds the address.
C21_PromoteBenefit ==
    [][(econ'.num_estimates = econ.num_estimates + 1
        /\ est'.action.action = MM_ACTION_PROMOTE_HUGE) =>
          IF econ.tlb_miss_est_fn # NULL
          THEN est'.out.benefit = Estimators[econ.tlb_miss_est_fn][est'.action.address]
          ELSE /\ Cardinality(HugeRangesAt(est'.action.pid, est'.action.address)) <= 1
               /\ \A r \in HugeRangesAt(est'.action.pid, est'.action.address) :
                      est'.out.benefit = r[3]
               /\ HugeRangesAt(est'.action.pid, est'.action.address) = {} =>
                      est'.out.benefit = 0]_vars

\* A promotion was estimated at an address of the second of two ranges of
\* the huge page tree, and its benefit is that range's, not the first's.
C21_Witness ==
    /\ est.op = "estimate" /\ est.action.action = MM_ACTION_PROMOTE_HUGE
    /\ econ.tlb_miss_est_fn = NULL
    /\ est.action.address = PageSize
    /\ lookup(est.action.pid) # NULL
    /\ TreeRanges(heap, procs[lookup(est.action.pid)].hp_ranges_root) =
           {<<0, PageSize, 1>>, <<PageSize, 2 * PageSize, MaxBenefit>>}
    /\ est.out.benefit = MaxBenefit

\* A step that is an estimate of an eager paging which came back.
EagerEstimated ==
    /\ econ'.num_estimates = econ.num_estimates + 1
    /\ est'.action.action = MM_ACTION_EAGER_PAGING
    /\ ~fault'

\* The ranges of the eager tree of the profile of pid.
EagerRangesOf(pid) ==
    IF lookup(pid) = NULL THEN {}
    ELSE IF procs[lookup(pid)].eager_ranges_root = WILD THEN {}
    ELSE TreeRanges(heap, procs[lookup(pid)].eager_ranges_root)

\* Those of them that overlap [address, address + len) and have a benefit
\* above cost.
Qualifying(a, cost) ==
    {r \in EagerRangesOf(a.pid) :
         r[1] < a.address + a.len /\ a.address < r[2] /\ r[3] > cost}

\* The largest benefit of a set of ranges, 0 for none.
MaxBenefitOf(S) ==
    IF S = {} THEN 0
    ELSE CHOOSE b \in {r[3] : r \in S} : \A r \in S : r[3] <= b

\* The ranges of S as (start, end) pairs in the order of their starts.
RECURSIVE Ascending(_)
Ascending(S) ==
    IF S = {} THEN <<>>
    ELSE LET r == CHOOSE x \in S : \A y \in S : x[1] <= y[1]
         IN <<<<r[1], r[2]>>>> \o Ascending(S \ {r})

C23_EagerRangeList ==
    [][EagerEstimated =>
          IF Qualifying(est'.action, est'.out.cost) = {}
          THEN est'.out.extra = 0 /\ est'.out.ranges = <<>>
          ELSE /\ est'.out.extra = RANGES_PTR
               /\ est'.out.ranges =
                      Append(Ascending(Qualifying(est'.action, est'.out.cost)), <<-1, -1>>)]_vars

\* What holds of the array: it is as C23 says when ranges qualify and there
\* is memory for it, and when none qualifies extra is what the caller left
\* in it.
EagerRangeListKept ==
    [][EagerEstimated =>
          IF Qualifying(est'.action, est'.out.cost) = {}
          THEN est'.out.extra = est'.in.extra /\ est'.out.ranges = <<>>
          ELSE IF est'.fuel = 0
          THEN est'.out.extra = 0 /\ est'.out.ranges = <<>>
          ELSE /\ est'.out.extra = RANGES_PTR
               /\ est'.out.ranges =
                      Append(Ascending(Qualifying(est'.action, est'.out.cost)), <<-1, -1>>)]_vars

\* An eager paging was estimated with an extra from before, no range
\* qualified, and the extra is still there.
StaleExtra ==
    /\ est.op = "estimate" /\ est.action.action = MM_ACTION_EAGER_PAGING
    /\ ~fault
    /\ est.in.extra # 0 /\ est.out.extra = est.in.extra
    /\ est.out.benefit = 0

\* ------------------------------------------------------------- the stats

\* The most promotions registered in a run.
MaxPromotions == 2

\* sizeof of the structures that come from mm_econ_vmalloc, in units.
SIZEOF_RANGE == 4
SIZEOF_COMPARISON == 1
SIZEOF_FILTER == 2
SIZEOF_PROC == 3

\* A promotion that is taken back by the one after it.
mm_register_promotion_mut(g) ==
    [g EXCEPT !.num_hp_promotions = IF g.num_hp_promotions = 0 THEN 1 ELSE 0]

mm_register_promotion(g) ==
    [g EXCEPT !.num_hp_promotions = u64(g.num_hp_promotions + 1)]

\* What mm_econ_vmalloc has added for the filters fs and mm_econ_vfree has
\* not taken off again.
RECURSIVE filter_bytes(_)
filter_bytes(fs) ==
    IF fs = <<>> THEN 0
    ELSE SIZEOF_FILTER + SIZEOF_COMPARISON * Len(Head(fs).comparisons)
         + filter_bytes(Tail(fs))

\* The same for the profiles i..MaxProcs.
RECURSIVE proc_bytes(_, _)
proc_bytes(ps, i) ==
    IF i > MaxProcs THEN 0
    ELSE (IF ps[i].alive THEN SIZEOF_PROC + filter_bytes(ps[i].filters) ELSE 0)
         + proc_bytes(ps, i + 1)

\* mm_econ_vmalloc_bytes between two calls: every mm_econ_vmalloc adds the
\* size of what it allocates and every mm_econ_vfree takes the same size off,
\* which leaves the sizes of the ranges, profiles, filters and comparisons
\* that are allocated.
mm_econ_vmalloc_bytes(h, ps) ==
    SIZEOF_RANGE * Cardinality(Allocated(h)) + proc_bytes(ps, 1)

\* A huge page is promoted in a page fault.
RegisterPromotion ==
    /\ econ.num_hp_promotions < MaxPromotions
    /\ econ' = mm_register_promotion(econ)
    /\ est' = [NoEst EXCEPT !.op = "register_promotion", !.mode = econ.mode]
    /\ UNCHANGED <<heap, root, last, procs, filter_procs, fault, lockvars>>

\* The estimates of the run: the daemons on a busy machine, with a benefit
\* of prezeroing above and below its cost.
StatsInputs ==
    {[a |-> Action(MM_ACTION_RUN_DEFRAG, 0), in |-> CostDelta(0, 0, 0),
      env |-> Env(<<>>, <<2, 2 * FIXED_1>>, 0, Plenty)]}
    \cup
    {[a |-> Action(MM_ACTION_RUN_PREZEROING, 1), in |-> CostDelta(0, 0, 0),
      env |-> Env(<<>>, <<2, FIXED_1>>, recent_used, Plenty)] :
        recent_used \in {0, MaxPrezero}}

\* The filter of the process: the first page of a mapping.
StatsFilter ==
    Filter(PolicyHugePage, SectionMmap, 1, <<Comparison(QuantAddr, CompLessThan, PageSize)>>)

\* A process writes a filter, maps memory and exits, while estimates and
\* decisions are made and promotions registered.
NextStats ==
    \/ Write(1, <<StatsFilter>>, Plenty, NULL)
    \/ AddMapping(1, Mapping(SectionMmap, 0, 0, 2 * PageSize), Plenty)
    \/ ExitProc(1)
    \/ EnabledStore(<<"1">>)
    \/ \E x \in StatsInputs : Estimate(x)
    \/ \E cost \in {CostDelta(1, 1, 0), CostDelta(0, 1, 0)} : Decide(cost)
    \/ RegisterPromotion

SpecStats == InitStore /\ [][NextStats]_vars

\* The counters that only count.
CountersGrow ==
    /\ econ'.num_estimates >= econ.num_estimates
    /\ econ'.num_decisions >= econ.num_decisions
    /\ econ'.num_decisions_yes >= econ.num_decisions_yes
    /\ econ'.num_hp_promotions >= econ.num_hp_promotions
    /\ econ'.num_async_compaction >= econ.num_async_compaction
    /\ econ'.num_async_prezeroing >= econ.num_async_prezeroing

\* C24 as stated: none of the seven values of the stats file ever gets
\* smaller.
C24_StatsMonotonicStated ==
    [][/\ CountersGrow
       /\ mm_econ_vmalloc_bytes(heap', procs') >= mm_econ_vmalloc_bytes(heap, procs)]_vars

\* C24: the six counters of estimates, decisions, yes-decisions, promotions,
\* async compactions and async prezeroings never get smaller; the bytes
\* allocated get smaller only in a call that frees something, and are 0
\* when nothing is allocated.
C24_StatsMonotonic ==
    [][/\ CountersGrow
       /\ mm_econ_vmalloc_bytes(heap', procs') < mm_econ_vmalloc_bytes(heap, procs) =>
              \/ Allocated(heap) \ Allocated(heap') # {}
              \/ \E i \in ProcIds : procs[i].alive /\ ~procs'[i].alive
              \/ \E i \in ProcIds : Len(procs'[i].filters) < Len(procs[i].filters)]_vars

\* Every counter that can has counted, and the exit of the process has
\* brought the bytes allocated back to 0.
C24_Witness ==
    /\ econ.num_estimates > 0 /\ econ.num_decisions > 0
    /\ econ.num_decisions_yes > 0 /\ econ.num_hp_promotions > 0
    /\ last.op = "exit" /\ last.res = "ok"
    /\ mm_econ_vmalloc_bytes(heap, procs) = 0

\* ------------------------------------------------- the calls step by step

\* The calls a task makes, as <<op, pid>>: add_mapping, teardown, filter
\* write, the two estimates and the two dumps for the process 1, its
\* duplication into the process 2, and the teardown of that.
TaskCalls ==
    {<<"add_mapping", 1>>, <<"exit", 1>>, <<"exit", 2>>, <<"write", 1>>,
     <<"copy", 1>>, <<"estimate", 1>>, <<"estimate_eager", 1>>,
     <<"dump_filters", 1>>, <<"dump_profile", 1>>}

\* The pid mm_copy_profile copies to.
NewPid == 2

\* Where a call starts: at its first down_read or down_write.
entry(op) ==
    IF op = "add_mapping" THEN "add_1008"
    ELSE IF op = "exit" THEN "exit_1290"
    ELSE IF op = "write" THEN "write_1765"
    ELSE IF op = "copy" THEN "copy_1216"
    ELSE IF op = "estimate_eager" THEN "eager_533"
    ELSE IF op = "dump_filters" THEN "dumpf_1552"
    ELSE IF op = "dump_profile" THEN "dumpp_1961"
    ELSE "est_491"

\* The lines with a down_read and those with a down_write.
ReadLocks ==
    {"add_1008", "add_1035", "exit_1290", "copy_1216", "est_491", "eager_533",
     "dumpf_1552", "dumpp_1961", "dumpp_1980"}

WriteLocks ==
    {"add_1193", "exit_1295", "write_1765", "write_1863", "write_1886", "write_1900",
     "copy_1269"}

\* The line after a down_read or a down_write.
inside(pc) ==
    IF pc = "add_1008" THEN "add_1009"
    ELSE IF pc = "add_1035" THEN "add_1036"
    ELSE IF pc = "add_1193" THEN "add_1194"
    ELSE IF pc = "exit_1290" THEN "exit_1291"
    ELSE IF pc = "exit_1295" THEN "exit_1297"
    ELSE IF pc = "write_1765" THEN "write_1767"
    ELSE IF pc = "write_1863" THEN "write_1864"
    ELSE IF pc = "write_1886" THEN "write_1887"
    ELSE IF pc = "write_1900" THEN "write_1901"
    ELSE IF pc = "copy_1216" THEN "copy_1219"
    ELSE IF pc = "copy_1269" THEN "copy_1270"
    ELSE IF pc = "eager_533" THEN "eager_535"
    ELSE IF pc = "dumpf_1552" THEN "dumpf_1553"
    ELSE IF pc = "dumpp_1961" THEN "dumpp_1962"
    ELSE IF pc = "dumpp_1980" THEN "dumpp_1981"
    ELSE "est_492"

\* The task t goes on with nt, and the semaphore, the registry and the log
\* become sem, reg and lg; a task that comes to a down_read or a down_write
\* asks for the semaphore.
Goes(t, nt, sem, reg, lg) ==
    /\ task' = [task EXCEPT ![t] = nt]
    /\ filter_procs_sem' =
          IF nt.pc \in ReadLocks \cup WriteLocks THEN request(sem, t) ELSE sem
    /\ registry' = reg
    /\ log' = lg
    /\ UNCHANGED datavars

\* The task t enters a call.
Call(t, op, pid) ==
    /\ task[t].pc = "idle"
    /\ Goes(t, [Idle EXCEPT !.op = op, !.pid = pid, !.pc = entry(op)],
            filter_procs_sem, registry, log)

\* The task t gets through a down_read.
DownRead(t) ==
    /\ task[t].pc \in ReadLocks
    /\ down_read_ok(filter_procs_sem)
    /\ Goes(t, [task[t] EXCEPT !.pc = inside(@)], down_read(filter_procs_sem, t),
            registry, log)

\* The task t gets through a down_write.
DownWrite(t) ==
    /\ task[t].pc \in WriteLocks
    /\ down_write_ok(filter_procs_sem)
    /\ Goes(t, [task[t] EXCEPT !.pc = inside(@)],
            IF task[t].pc = "add_1193" THEN lock_for_commit(filter_procs_sem, t)
            ELSE down_write(filter_procs_sem, t),
            registry, log)

\* mm_add_memory_range and mm_profile_check_exiting_proc look the profile
\* up, let the semaphore go, and return if there is none.
Lookup(t) ==
    /\ task[t].pc \in {"add_1009", "exit_1291"}
    /\ \E proc \in {find_in(registry, registry.list, task[t].pid)} :
          Goes(t,
               IF proc = NULL THEN Idle
               ELSE [task[t] EXCEPT !.proc = proc,
                                    !.pc = IF @ = "add_1009" THEN "add_1035" ELSE "exit_1295"],
               up_read(filter_procs_sem, t), registry, log)

\* The loop of mm_add_memory_range over the filters of the profile; it
\* leaves by up_read, at the end or at err when ok is false.
AddFilters(t, ok) ==
    /\ task[t].pc = "add_1036"
    /\ Goes(t, IF ok THEN [task[t] EXCEPT !.pc = "add_1193"] ELSE Idle,
            IF ok THEN up_read(filter_procs_sem, t)
            ELSE up_read_at_err(filter_procs_sem, t),
            registry,
            reads(log, registry, t, "add_mapping", "filters", task[t].proc))

\* The first profile_move of mm_add_memory_range, into the huge page tree.
AddCommitHuge(t) ==
    /\ task[t].pc = "add_1194"
    /\ Goes(t, [task[t] EXCEPT !.pc = "add_1195"], filter_procs_sem,
            [registry EXCEPT !.half[task[t].proc] = TRUE],
            changes(log, registry, filter_procs_sem, t, "add_mapping", "trees",
                    task[t].proc))

\* The second, into the eager tree, and the up_write.
AddCommit(t) ==
    /\ task[t].pc = "add_1195"
    /\ Goes(t, Idle, up_write(filter_procs_sem, t),
            [registry EXCEPT !.half[task[t].proc] = FALSE],
            changes(log, registry, filter_procs_sem, t, "add_mapping", "trees",
                    task[t].proc))

\* mm_profile_check_exiting_proc frees the trees and the filters of the
\* profile, unlinks it and frees it.
ExitFree(t) ==
    /\ task[t].pc = "exit_1297"
    /\ Goes(t, Idle, up_write(filter_procs_sem, t),
            vfree_proc([registry EXCEPT !.list = list_del(@, task[t].proc)], task[t].proc),
            reads(changes(changes(changes(log, registry, filter_procs_sem, t, "exit",
                                          "trees", task[t].proc),
                                  registry, filter_procs_sem, t, "exit", "filters",
                                  task[t].proc),
                          registry, filter_procs_sem, t, "exit", "list", task[t].proc),
                  registry, t, "exit", "free", task[t].proc))

\* mmap_filters_write finds the profile of the process or allocates one;
\* without memory it returns.
WriteFind(t) ==
    /\ task[t].pc = "write_1767"
    /\ \E proc \in {find_in(registry, registry.list, task[t].pid)},
          new \in {vmalloc_proc(registry)} :
          IF proc # NULL
          THEN Goes(t, [task[t] EXCEPT !.proc = proc, !.pc = "write_1786"],
                    up_write(filter_procs_sem, t), registry, log)
          ELSE IF new = NULL
          THEN Goes(t, Idle, up_write(filter_procs_sem, t), registry, log)
          ELSE Goes(t, [task[t] EXCEPT !.proc = new, !.alloc_new_proc = TRUE,
                                       !.pc = "write_1786"],
                    up_write(filter_procs_sem, t),
                    [registry EXCEPT !.allocated[new] = TRUE, !.pid[new] = task[t].pid],
                    log)

\* It parses a filter, which is good or not.
WriteParse(t, good) ==
    /\ task[t].pc = "write_1786"
    /\ Goes(t, [task[t] EXCEPT !.pc = IF good THEN "write_1863" ELSE "write_1900"],
            filter_procs_sem, registry, log)

\* It appends the filter to the filters of the profile.
WriteAppend(t) ==
    /\ task[t].pc = "write_1864"
    /\ Goes(t, IF task[t].alloc_new_proc THEN [task[t] EXCEPT !.pc = "write_1886"] ELSE Idle,
            up_write(filter_procs_sem, t), registry,
            changes(log, registry, filter_procs_sem, t, "write", "filters", task[t].proc))

\* It links the profile it has allocated.
WriteLink(t) ==
    /\ task[t].pc = "write_1887"
    /\ Goes(t, Idle, up_write(filter_procs_sem, t),
            [registry EXCEPT !.list = Append(@, task[t].proc)],
            changes(log, registry, filter_procs_sem, t, "write", "list", task[t].proc))

\* At err it frees the filters of the profile, and the profile if it has
\* allocated it.
WriteErr(t) ==
    /\ task[t].pc = "write_1901"
    /\ Goes(t, Idle, up_write(filter_procs_sem, t),
            IF task[t].alloc_new_proc THEN vfree_proc(registry, task[t].proc) ELSE registry,
            changes(log, registry, filter_procs_sem, t, "write", "filters", task[t].proc))

\* mm_copy_profile finds the profile of the old process, allocates one for
\* the new process and copies the filters and the trees into it; without a
\* profile or without memory (ok is false) it returns.
CopyBody(t, ok) ==
    /\ task[t].pc = "copy_1219"
    /\ \E proc \in {find_in(registry, registry.list, task[t].pid)},
          new \in {vmalloc_proc(registry)} :
          IF proc = NULL \/ new = NULL \/ ~ok
          THEN Goes(t, Idle, up_read(filter_procs_sem, t), registry, log)
          ELSE Goes(t, [task[t] EXCEPT !.proc = new, !.pc = "copy_1269"],
                    up_read(filter_procs_sem, t),
                    [registry EXCEPT !.allocated[new] = TRUE, !.pid[new] = NewPid],
                    changes(changes(reads(log, registry, t, "copy", "trees", proc),
                                    registry, filter_procs_sem, t, "copy", "filters", new),
                            registry, filter_procs_sem, t, "copy", "trees", new))

\* It links the new profile.
CopyLink(t) ==
    /\ task[t].pc = "copy_1270"
    /\ Goes(t, Idle, up_write(filter_procs_sem, t),
            [registry EXCEPT !.list = Append(@, task[t].proc)],
            changes(log, registry, filter_procs_sem, t, "copy", "list", task[t].proc))

\* compute_hpage_benefit_from_profile and compute_eager_page_benefit look
\* the profile up and search its tree.
EstimateRead(t) ==
    /\ task[t].pc \in {"est_492", "eager_535"}
    /\ \E proc \in {find_in(registry, registry.list, task[t].pid)} :
          Goes(t, Idle, up_read(filter_procs_sem, t), registry,
               IF proc = NULL THEN log ELSE sees(log, registry, t, task[t].op, proc))

\* mmap_filters_read looks the profile up and prints its filters.
DumpFilters(t) ==
    /\ task[t].pc = "dumpf_1553"
    /\ \E proc \in {find_in(registry, registry.list, task[t].pid)} :
          Goes(t, Idle, up_read(filter_procs_sem, t), registry,
               IF proc = NULL THEN log
               ELSE reads(log, registry, t, "dump_filters", "filters", proc))

\* print_profile looks for the profile in the list and lets the semaphore
\* go; it returns if there is none or if there is no memory for the buffer
\* (ok is false).
DumpFind(t, ok) ==
    /\ task[t].pc = "dumpp_1962"
    /\ \E proc \in {find_in(registry, registry.list, task[t].pid)} :
          Goes(t,
               IF proc = NULL \/ ~ok THEN Idle
               ELSE [task[t] EXCEPT !.proc = proc, !.pc = "dumpp_1980"],
               up_read(filter_procs_sem, t), registry, log)

\* It prints the two trees of the profile it has found.
DumpTrees(t) ==
    /\ task[t].pc = "dumpp_1981"
    /\ Goes(t, Idle, up_read(filter_procs_sem, t), registry,
            sees(log, registry, t, "dump_profile", task[t].proc))

NextLock ==
    \E t \in Tasks :
        \/ \E c \in TaskCalls : Call(t, c[1], c[2])
        \/ DownRead(t)
        \/ DownWrite(t)
        \/ Lookup(t)
        \/ \E ok \in BOOLEAN : AddFilters(t, ok)
        \/ AddCommitHuge(t)
        \/ AddCommit(t)
        \/ ExitFree(t)
        \/ WriteFind(t)
        \/ \E good \in BOOLEAN : WriteParse(t, good)
        \/ WriteAppend(t)
        \/ WriteLink(t)
        \/ WriteErr(t)
        \/ \E ok \in BOOLEAN : CopyBody(t, ok)
        \/ CopyLink(t)
        \/ EstimateRead(t)
        \/ DumpFilters(t)
        \/ \E ok \in BOOLEAN : DumpFind(t, ok)
        \/ DumpTrees(t)

SpecLock == InitStore /\ [][NextLock]_vars

\* The same with a fair semaphore: a down_read and a down_write return in
\* the order the tasks have asked.
FairDownRead(t) == is_next(filter_procs_sem, t) /\ DownRead(t)

FairDownWrite(t) == is_next(filter_procs_sem, t) /\ DownWrite(t)

\* A step of the task t inside a call.
Runs(t) ==
    \/ FairDownRead(t)
    \/ FairDownWrite(t)
    \/ Lookup(t)
    \/ \E ok \in BOOLEAN : AddFilters(t, ok)
    \/ AddCommitHuge(t)
    \/ AddCommit(t)
    \/ ExitFree(t)
    \/ WriteFind(t)
    \/ \E good \in BOOLEAN : WriteParse(t, good)
    \/ WriteAppend(t)
    \/ WriteLink(t)
    \/ WriteErr(t)
    \/ \E ok \in BOOLEAN : CopyBody(t, ok)
    \/ CopyLink(t)
    \/ EstimateRead(t)
    \/ DumpFilters(t)
    \/ \E ok \in BOOLEAN : DumpFind(t, ok)
    \/ DumpTrees(t)

NextLockFair ==
    \E t \in Tasks :
        \/ \E c \in TaskCalls : Call(t, c[1], c[2])
        \/ FairDownRead(t)
        \/ FairDownWrite(t)
        \/ Lookup(t)
        \/ \E ok \in BOOLEAN : AddFilters(t, ok)
        \/ AddCommitHuge(t)
        \/ AddCommit(t)
        \/ ExitFree(t)
        \/ WriteFind(t)
        \/ \E good \in BOOLEAN : WriteParse(t, good)
        \/ WriteAppend(t)
        \/ WriteLink(t)
        \/ WriteErr(t)
        \/ \E ok \in BOOLEAN : CopyBody(t, ok)
        \/ CopyLink(t)
        \/ EstimateRead(t)
        \/ DumpFilters(t)
        \/ \E ok \in BOOLEAN : DumpFind(t, ok)
        \/ DumpTrees(t)

\* The state after construction, with the log not kept.
InitFair ==
    /\ heap = EmptyHeap
    /\ root = NULL
    /\ last = NoOp
    /\ procs = [i \in ProcIds |-> BlankProc]
    /\ filter_procs = <<>>
    /\ fault = FALSE
    /\ econ = EconInit
    /\ est = NoEst
    /\ filter_procs_sem = SemInit
    /\ task = [t \in Tasks |-> Idle]
    /\ registry = RegistryInit
    /\ log = LogOff

\* Every task that is inside a call goes on: the scheduler runs it, and the
\* semaphore lets it in when its turn has come and the holders have left.
SpecLockFair ==
    InitFair /\ [][NextLockFair]_vars /\ \A t \in Tasks : WF_vars(Runs(t))

\* C26: every change to the list, to the filters of a linked profile or to
\* a tree of a linked profile is made by a task that holds filter_procs_sem
\* for writing, however the calls of the tasks interleave; and a task never
\* holds it for writing while another holds it at all.
C26_WriteLockDiscipline ==
    /\ \A c \in log.changes : c.registered => c.mode = "write"
    /\ filter_procs_sem.writer # NULL => filter_procs_sem.readers = {}

\* The list, the filters and the trees of linked profiles have all been
\* changed, by add_mapping, teardown, filter write and duplicate, and the
\* copy has filled its own profile under the shared lock.
C26_Witness ==
    /\ \A what \in {"list", "filters", "trees"} :
           \E c \in log.changes : c.what = what /\ c.registered /\ c.mode = "write"
    /\ \A op \in {"add_mapping", "exit", "write", "copy"} :
           \E c \in log.changes : c.op = op /\ c.registered
    /\ \E c \in log.changes : c.op = "copy" /\ ~c.registered /\ c.mode = "read"

\* C27: no add_mapping reads the filters of or commits ranges into a profile
\* that was freed, no teardown frees one that was freed, and no profile is
\* freed twice, however the calls of the tasks interleave.
C27_NoUseAfterTeardown ==
    /\ \A u \in log.stale : u.op \notin {"add_mapping", "exit"}
    /\ \A o \in ProfileIds : registry.freed[o] <= 1

\* ------------------------------------------- filters that fire and do not

\* The filters of this part: one on the offset from the top of the mmap
\* section, one on the offset from the start of the heap, one whose length
\* comparison fails after its address comparison has split, one on an
\* address no range holds, one that takes the whole mapping, and one of the
\* other policy that takes it as well.
OffsetFilters ==
    {Filter(PolicyHugePage, SectionMmap, MaxBenefit,
            <<Comparison(QuantSectionOff, CompGreaterThan, PageSize)>>),
     Filter(PolicyHugePage, SectionHeap, 1,
            <<Comparison(QuantSectionOff, CompLessThan, PageSize)>>),
     Filter(PolicyHugePage, SectionMmap, MaxBenefit,
            <<Comparison(QuantAddr, CompGreaterThan, PageSize),
              Comparison(QuantLen, CompGreaterThan, Plenty)>>),
     Filter(PolicyEagerPage, SectionMmap, 1,
            <<Comparison(QuantAddr, CompEquals, AddrSpace - 1)>>),
     Filter(PolicyHugePage, SectionMmap, 1, <<>>),
     Filter(PolicyEagerPage, SectionMmap, MaxBenefit, <<>>)}

\* The mappings: two pages below the top of the mmap section at two pages,
\* the same with the top at 0, and a page of the heap one byte above its
\* start.
OffsetMappings ==
    {Mapping(SectionMmap, 0, 2 * PageSize, 2 * PageSize),
     Mapping(SectionMmap, 0, 0, 2 * PageSize),
     Mapping(SectionHeap, PageSize, 1, PageSize)}

\* One process writes filters one at a time and maps memory.
NextFilter ==
    \/ \E f \in OffsetFilters : Write(1, <<f>>, Plenty, NULL)
    \/ \E m \in OffsetMappings : AddMapping(1, m, Plenty)

SpecFilter == InitStore /\ [][NextFilter]_vars

\* A step that is a call of mm_add_memory_range for a process with a
\* profile.
MappingAdded == last'.op = "add_mapping" /\ last'.res # "noproc" /\ lookup(last'.pid) # NULL

\* The step is such a call for the mapping m, and it went well.
AddedMapping(m) == MappingAdded /\ last'.res = "ok" /\ last'.m = m

\* The comparison on QuantAddr that a comparison on QuantSectionOff stands
\* for, its key computed in the integers.
AsAddr(m, cmp) ==
    IF cmp.quant # QuantSectionOff THEN cmp
    ELSE IF m.section = SectionMmap
    THEN Comparison(QuantAddr,
                    IF cmp.comp = CompGreaterThan THEN CompLessThan
                    ELSE IF cmp.comp = CompLessThan THEN CompGreaterThan
                    ELSE cmp.comp,
                    (m.mapaddr + m.section_off) - cmp.val)
    ELSE Comparison(QuantAddr, cmp.comp, (m.mapaddr - m.section_off) + cmp.val)

\* The filter with its comparisons on QuantSectionOff made comparisons on
\* QuantAddr.
FilterAsAddr(m, f) ==
    [f EXCEPT !.comparisons = [i \in 1..Len(f.comparisons) |-> AsAddr(m, f.comparisons[i])]]

\* C31: a comparison on QuantSectionOff with the value v does to the
\* working trees what a comparison on QuantAddr does whose key is
\* (mapaddr - section_off) + v with the same comparator, or, in the mmap
\* section, (mapaddr + section_off) - v with > and < swapped; and that key
\* is an address, not one that has wrapped around.
C31_SectionOffTranslation ==
    [][\A m \in OffsetMappings :
          AddedMapping(m) =>
              \A k \in 1..Len(procs[lookup(last'.pid)].filters) :
                  /\ eval_filter(WorkAfter(m, procs[lookup(last'.pid)].filters, k - 1), m,
                                 procs[lookup(last'.pid)].filters[k])
                       = eval_filter(WorkAfter(m, procs[lookup(last'.pid)].filters, k - 1), m,
                                     FilterAsAddr(m, procs[lookup(last'.pid)].filters[k]))
                  /\ procs[lookup(last'.pid)].filters[k].section = m.section =>
                         \A i \in 1..Len(procs[lookup(last'.pid)].filters[k].comparisons) :
                             procs[lookup(last'.pid)].filters[k].comparisons[i].quant
                                 = QuantSectionOff =>
                             AsAddr(m, procs[lookup(last'.pid)].filters[k].comparisons[i]).val
                                 \in 0..(AddrSpace - 1)
      ]_vars

\* What holds of it: the key is that key modulo the size of the address
\* space.
SectionOffKeyWraps ==
    [][\A m \in OffsetMappings :
          AddedMapping(m) =>
              \A k \in 1..Len(procs[lookup(last'.pid)].filters) :
                  \A i \in 1..Len(procs[lookup(last'.pid)].filters[k].comparisons) :
                      LET cmp == procs[lookup(last'.pid)].filters[k].comparisons[i]
                      IN cmp.quant = QuantSectionOff =>
                             /\ address_key(m, cmp).key = AsAddr(m, cmp).val % AddrSpace
                             /\ address_key(m, cmp).comparator = AsAddr(m, cmp).comp
      ]_vars

\* The filters of the process of the call that a step is, and its mapping.
AddedFilters == procs[lookup(last'.pid)].filters

\* The k-th filter of the call is evaluated and does not fire.
Rejected(m, fs, k) ==
    /\ ~WorkAfter(m, fs, k - 1).done /\ ~WorkAfter(m, fs, k - 1).err
    /\ ~WorkAfter(m, fs, k).passes /\ ~WorkAfter(m, fs, k).err

\* C32: a filter that does not fire leaves in both working trees the ranges
\* and benefits that were there before it was evaluated, also when its
\* address comparisons have split the scratch tree before it failed.
C32_RejectedFilterNoChange ==
    [][(MappingAdded /\ last'.res = "ok") =>
          \A k \in 1..Len(AddedFilters) :
              Rejected(last'.m, AddedFilters, k) =>
                  \A policy \in Policies :
                      WorkRanges(WorkAfter(last'.m, AddedFilters, k), policy)
                          = WorkRanges(WorkAfter(last'.m, AddedFilters, k - 1), policy)
      ]_vars

\* A mapping of the mmap section was added for a process whose one filter
\* splits at an address and then fails on the length: the scratch ranges
\* were allocated, and the trees hold the mapping in one range without
\* benefit.
C32_Witness ==
    /\ last.op = "add_mapping" /\ last.res = "ok"
    /\ last.m = Mapping(SectionMmap, 0, 0, 2 * PageSize)
    /\ lookup(last.pid) # NULL
    /\ Len(procs[lookup(last.pid)].filters) = 1
    /\ Len(procs[lookup(last.pid)].filters[1].comparisons) = 2
    /\ procs[lookup(last.pid)].filters[1].comparisons[1].quant = QuantAddr
    /\ Cardinality(Allocated(heap)) > 2
    /\ \A policy \in Policies :
           TreeRanges(heap, PolicyRoot(procs[lookup(last.pid)], policy))
               = {<<0, 2 * PageSize, 0>>}

\* The k-th of the filters fs is the first that takes the whole mapping m.
FirstWhole(m, fs, k) ==
    /\ WholeMatch(fs[k], m)
    /\ \A j \in 1..(k - 1) : ~WholeMatch(fs[j], m)

\* C35: when a filter without a comparison on the address fires in
\* add_mapping, no filter after it is evaluated, of whatever policy: both
\* working trees stay as that filter left them, the tree of the other
\* policy as the filters before it left it, and so they are committed.
C35_WholeMatchEndsBoth ==
    [][(MappingAdded /\ last'.res = "ok") =>
          \A k \in 1..Len(AddedFilters) :
              FirstWhole(last'.m, AddedFilters, k) =>
                  /\ \A j \in k..Len(AddedFilters), policy \in Policies :
                         WorkRanges(WorkAfter(last'.m, AddedFilters, j), policy)
                             = WorkRanges(WorkAfter(last'.m, AddedFilters, k), policy)
                  /\ WorkRanges(WorkAfter(last'.m, AddedFilters, k),
                                OtherPolicy(AddedFilters[k].policy))
                         = WorkRanges(WorkAfter(last'.m, AddedFilters, k - 1),
                                      OtherPolicy(AddedFilters[k].policy))
                  /\ WorkRanges(WorkAfter(last'.m, AddedFilters, k),
                                OtherPolicy(AddedFilters[k].policy))
                         \subseteq
                     TreeRanges(heap', PolicyRoot(procs'[lookup(last'.pid)],
                                                  OtherPolicy(AddedFilters[k].policy)))
      ]_vars

\* A filter of the huge page policy that takes the whole mapping came
\* before one of the eager policy that would take it too: the mapping has
\* the benefit of the first in the huge page tree and none in the eager
\* tree.
C35_Witness ==
    /\ last.op = "add_mapping" /\ last.res = "ok"
    /\ last.m = Mapping(SectionMmap, 0, 0, 2 * PageSize)
    /\ lookup(last.pid) # NULL
    /\ procs[lookup(last.pid)].filters =
           <<Filter(PolicyHugePage, SectionMmap, 1, <<>>),
             Filter(PolicyEagerPage, SectionMmap, MaxBenefit, <<>>)>>
    /\ TreeRanges(heap, procs[lookup(last.pid)].hp_ranges_root) = {<<0, 2 * PageSize, 1>>}
    /\ TreeRanges(heap, procs[lookup(last.pid)].eager_ranges_root) = {<<0, 2 * PageSize, 0>>}

\* C38: when a call of mm_add_memory_range returns, whatever it returns
\* with, every range it has allocated is in one of the two trees of the
\* process or is free again.
C38_NoLeakedRanges ==
    [][MappingAdded =>
          \A k \in Allocated(heap') \ Allocated(heap) :
              k \in NodesOf(heap', procs', lookup(last'.pid))
      ]_vars

\* A call has returned well and left allocated ranges that no tree of a
\* profile holds.
LeakedRanges ==
    /\ last.op = "add_mapping" /\ last.res = "ok"
    /\ \E k \in Allocated(heap) : \A i \in ProcIds : k \notin NodesOf(heap, procs, i)

\* ---------------------------------------------------------------------
\* The commit of a mapping, seen from the readers
\* ---------------------------------------------------------------------

\* C33: the ranges of one add_mapping come into view in one step: whenever
\* the ranges of a mapping are in the huge page tree of a profile and not yet
\* in its eager tree, the task that moves them holds the semaphore for
\* writing and no reader is inside, and no estimate or dump that has looked
\* at the trees of a profile has found them half moved.
C33_AtomicCommit ==
    /\ \A o \in ProfileIds :
          registry.half[o] =>
              /\ filter_procs_sem.readers = {}
              /\ filter_procs_sem.writer # NULL
              /\ task[filter_procs_sem.writer].pc = "add_1195"
    /\ log.seen \subseteq {FALSE}

\* A commit is between its two moves while an estimate waits for the
\* semaphore, and an estimate has looked at the trees before.
C33_Witness ==
    /\ \E o \in ProfileIds : registry.half[o] /\ registered(registry, o)
    /\ \E t \in Tasks : task[t].pc \in {"est_491", "eager_533"}
    /\ log.seen # {}

\* ---------------------------------------------------------------------
\* Every call lets the semaphore go and returns
\* ---------------------------------------------------------------------

\* A task that has returned, or that asks for the semaphore, does not hold
\* it; so no call returns with it and none asks for it while it holds it.
ReleasedOutside ==
    \A t \in Tasks :
        task[t].pc \in {"idle"} \cup ReadLocks \cup WriteLocks =>
            held(filter_procs_sem, t) = "none"

\* When a task is inside a call, a task inside a call can take a step.
NoDeadlock ==
    (\E t \in Tasks : task[t].pc # "idle") =>
        \E t \in Tasks : task[t].pc # "idle" /\ ENABLED Runs(t)

\* C34: add_mapping, duplication, teardown, filter write, the two dumps and
\* the two estimates hold filter_procs_sem neither when they have returned
\* nor when they ask for it, no state is a deadlock, and with a fair
\* semaphore every call of every task returns.
C34_ReleaseAndProgress ==
    /\ [](ReleasedOutside /\ NoDeadlock)
    /\ \A t \in Tasks : (task[t].pc # "idle") ~> (task[t].pc = "idle")

\* A filter write has left by err, so a profile has been freed, and a task
\* waits for the semaphore behind the task that holds it.
C34_Witness ==
    /\ \E o \in ProfileIds : registry.freed[o] > 0
    /\ \E t \in Tasks :
          /\ task[t].pc \in WriteLocks
          /\ ~is_next(filter_procs_sem, t) \/ filter_procs_sem.readers # {}
          /\ \E q \in Tasks : q # t /\ held(filter_procs_sem, q) # "none"

\* ---------------------------------------------------------------------
\* A filter write that fails
\* ---------------------------------------------------------------------

\* C36: after a filter write to a process that had a profile has returned an
\* error, the profile is the one a lookup finds and holds the filters it
\* held before the write, in their order.
C36_FailedWriteKeepsFilters ==
    (/\ last.op = "write_text"
     /\ last.res # "ok"
     /\ last.was # NULL) =>
        /\ lookup(last.pid) = last.was
        /\ FiltersOf(last.pid) = last.had

\* A write in which no line parsed has returned the format error, and the
\* profile, which held a filter, is still linked and holds none.
FailedWriteEmptied ==
    /\ last.op = "write_text"
    /\ last.res = "inval"
    /\ last.was # NULL
    /\ Len(last.had) >= 1
    /\ lookup(last.pid) = last.was
    /\ FiltersOf(last.pid) = <<>>

\* ---------------------------------------------------------------------
\* The trees of a new profile
\* ---------------------------------------------------------------------

\* C37: the profile the first filter write of a process has made has two
\* well-formed trees: as long as no mapping was added both roots are NULL,
\* neither root is ever a pointer into no tree, and no lookup and no commit
\* follows such a pointer.
C37_FreshProfileTrees ==
    /\ \A i \in ProcIds :
          procs[i].alive =>
              /\ procs[i].hp_ranges_root # WILD
              /\ procs[i].eager_ranges_root # WILD
    /\ (last.op = "write" /\ last.res = "ok" /\ Allocated(heap) = {}) =>
          /\ procs[lookup(last.pid)].hp_ranges_root = NULL
          /\ procs[lookup(last.pid)].eager_ranges_root = NULL
    /\ ~fault

\* The first filter write of a process has returned, no mapping was added,
\* and the eager root of its profile is what the memory held.
FreshProfileWildRoot ==
    /\ last.op = "write" /\ last.res = "ok"
    /\ Allocated(heap) = {}
    /\ procs[lookup(last.pid)].hp_ranges_root = NULL
    /\ procs[lookup(last.pid)].eager_ranges_root = WILD

\* A lookup or a commit has followed that root.
WildRootFollowed ==
    /\ fault
    /\ \E i \in ProcIds : procs[i].alive /\ procs[i].eager_ranges_root = WILD

\* ---------------------------------------------------------------------
\* The actions that have no benefit
\* ---------------------------------------------------------------------

\* The actions mm_estimate_changes gives the benefit 0.
ZeroBenefitActions ==
    {MM_ACTION_NONE, MM_ACTION_DEMOTE_HUGE, MM_ACTION_RUN_DEFRAG, MM_ACTION_RUN_PROMOTION}

\* C39: the estimate of None, DemoteHuge, RunDefrag and RunPromotion has
\* the benefit 0 whatever the caller handed in and whatever the load; in
\* mode 1 mm_decide returns false for that estimate and does not count a yes;
\* and mm_econ_num_async_compaction is 0 in every state.
C39_ZeroBenefitNeverTaken ==
    /\ []((est.op = "estimate" /\ est.action.action \in ZeroBenefitActions) =>
              est.out.benefit = 0)
    /\ [](econ.num_async_compaction = 0)
    /\ [][(/\ est.op = "estimate"
           /\ est.action.action \in ZeroBenefitActions
           /\ est'.op = "decide"
           /\ est'.in = est.out
           /\ econ'.num_decisions = econ.num_decisions + 1
           /\ econ.mode = 1) =>
              /\ ~est'.decision
              /\ econ'.num_decisions_yes = econ.num_decisions_yes]_vars

\* In mode 1, on an idle machine where the daemon costs nothing, the
\* estimate of RunDefrag, handed a benefit by the caller, was not taken.
C39_Witness ==
    /\ est.op = "decide"
    /\ est.mode = 1
    /\ est.action.action = MM_ACTION_RUN_DEFRAG
    /\ est.given.benefit = MaxBenefit
    /\ est.in.benefit = 0
    /\ est.in.cost = 0
    /\ ~est.decision
    /\ econ.num_estimates >= 1
    /\ econ.num_async_compaction = 0

=============================================================================
